---- MODULE Spec2Model ----
(***************************************************************************)
(* Corpus-ingestion pipeline of the URA guidance assistant                 *)
(* (scripts/ingest/main.py): chunker, section-tree builder and loader.     *)
(*                                                                         *)
(* Text is modelled exactly, as run-length encoded character strings: a    *)
(* string is a sequence of runs [c |-> character, n |-> repetitions] in    *)
(* which adjacent runs carry different characters.  Every string operation *)
(* of the source (strip, lstrip, re.sub, join, len, slugify, ...) is       *)
(* computed on that representation.                                        *)
(***************************************************************************)
EXTENDS Naturals, Sequences, FiniteSets, Bags

VARIABLES
  registry,  \* the sources a command has loaded from the registry file (load_sources)
  files,     \* the raw artifact on disk of each source id (find_raw_input)
  db,        \* the committed tables of the store
  load,      \* the pipeline run in progress: its position, inputs, rows and transaction
  ck,        \* a caller of chunk_markdown: the call's locals and the previous result
  gen,       \* a caller of generate_doc_sections: the document and the nodes returned
  vf,        \* a verify command: its flag and the value verify_seed returned
  ld,        \* a command reading the registry file: the entries and what load_sources did
  fetch,     \* a fetch_sources invocation: the raw directory, position and status rows
  conc,      \* two load transactions open at the same time on one store
  akn,       \* a call of _parse_akn: the tree, the walk's position and its lines
  cli,       \* a command line run of main: the stages executed and the exit code
  quota      \* the quota tables and the chat requests in flight against them

vars == <<registry, files, db, load, ck, gen, vf, ld, fetch, conc, akn, cli, quota>>

\* the callers that the pipeline and the chunker runs leave alone
callers == <<gen, vf, ld, fetch, conc, akn, cli, quota>>
Off == [pc |-> "off"]
CallersOff ==
  /\ gen = Off /\ vf = Off /\ ld = Off /\ fetch = Off /\ conc = Off
  /\ akn = Off /\ cli = Off /\ quota = Off

(***************************************************************************)
(* Strings                                                                 *)
(***************************************************************************)
Run(c, n) == [c |-> c, n |-> n]

Rep(c, n) == IF n = 0 \/ c = "" THEN <<>> ELSE <<Run(c, n)>>

\* a + b on strings (adjacent equal characters merge into one run)
Cat(a, b) ==
  IF a = <<>> THEN b
  ELSE IF b = <<>> THEN a
  ELSE IF a[Len(a)].c = b[1].c
       THEN SubSeq(a, 1, Len(a) - 1) \o <<Run(b[1].c, a[Len(a)].n + b[1].n)>> \o Tail(b)
       ELSE a \o b

RECURSIVE CatAll(_)
CatAll(ss) == IF ss = <<>> THEN <<>> ELSE Cat(Head(ss), CatAll(Tail(ss)))

\* a string literal, given character by character
Lit(chars) == CatAll([i \in 1..Len(chars) |-> Rep(chars[i], 1)])

RECURSIVE StrLen(_)
StrLen(s) == IF s = <<>> THEN 0 ELSE s[1].n + StrLen(Tail(s))

\* the first k characters of s (s[:k])
RECURSIVE Take(_, _)
Take(s, k) ==
  IF k = 0 \/ s = <<>> THEN <<>>
  ELSE IF s[1].n >= k THEN <<Run(s[1].c, k)>>
  ELSE <<s[1]>> \o Take(Tail(s), k - s[1].n)

\* s without its first k characters (s[k:])
RECURSIVE Drop(_, _)
Drop(s, k) ==
  IF k = 0 \/ s = <<>> THEN s
  ELSE IF s[1].n > k THEN <<Run(s[1].c, s[1].n - k)>> \o Tail(s)
  ELSE Drop(Tail(s), k - s[1].n)

\* the absent value (Python None) of a string-valued field
None == <<Run("", 0)>>

\* character classes of Python's re / str for the characters in use
IsSpace(c) == c \in {" ", "\t", "\n"}
IsDigit(c) == c \in {"0", "1", "2", "3", "4", "5", "6", "7", "8", "9"}
UpperOf ==
  [a |-> "A", c |-> "C", e |-> "E", i |-> "I", p |-> "P", s |-> "S", t |-> "T",
   v |-> "V", y |-> "Y"]
IsLowerLetter(c) ==
  c \in {"a", "b", "c", "d", "e", "f", "g", "h", "i", "j", "k", "l", "m", "n", "o", "p",
         "q", "r", "s", "t", "u", "v", "w", "x", "y", "z"}
IsUpperLetter(c) == \E k \in DOMAIN UpperOf : UpperOf[k] = c
IsWord(c) == IsLowerLetter(c) \/ IsUpperLetter(c) \/ IsDigit(c) \/ c = "_"

\* str.lower() on one character
LowerChar(c) ==
  IF IsUpperLetter(c) THEN CHOOSE k \in DOMAIN UpperOf : UpperOf[k] = c ELSE c

\* str.lower(), character by character
Lower(s) == CatAll([i \in 1..Len(s) |-> Rep(LowerChar(s[i].c), s[i].n)])

RECURSIVE LStripSet(_, _)
LStripSet(s, chars) ==
  IF s # <<>> /\ s[1].c \in chars THEN LStripSet(Tail(s), chars) ELSE s

RECURSIVE RStripSet(_, _)
RStripSet(s, chars) ==
  IF s # <<>> /\ s[Len(s)].c \in chars
  THEN RStripSet(SubSeq(s, 1, Len(s) - 1), chars) ELSE s

WhiteSpace == {" ", "\t", "\n"}

\* str.strip()
Strip(s) == RStripSet(LStripSet(s, WhiteSpace), WhiteSpace)

\* str.startswith(p)
StartsWith(s, p) == Take(s, StrLen(p)) = p

\* re.sub(r"\s+", " ", s)
CollapseChar(c) == IF IsSpace(c) THEN " " ELSE c
RECURSIVE SquashSpaces(_)
SquashSpaces(s) ==
  IF s = <<>> THEN <<>>
  ELSE IF s[1].c = " " THEN <<Run(" ", 1)>> \o SquashSpaces(Tail(s))
  ELSE <<s[1]>> \o SquashSpaces(Tail(s))
CollapseWs(s) ==
  SquashSpaces(CatAll([i \in 1..Len(s) |-> Rep(CollapseChar(s[i].c), s[i].n)]))

\* sep.join(items)
RECURSIVE Join(_, _)
Join(sep, items) ==
  IF items = <<>> THEN <<>>
  ELSE IF Len(items) = 1 THEN items[1]
  ELSE Cat(Cat(items[1], sep), Join(sep, Tail(items)))

RECURSIVE SumLen(_)
SumLen(items) == IF items = <<>> THEN 0 ELSE StrLen(Head(items)) + SumLen(Tail(items))

(***************************************************************************)
(* Identities.  SHA-256 and uuid5 are modelled as collision-free: a digest *)
(* is the tagged input, so two digests are equal exactly when their inputs *)
(* are the same string.                                                    *)
(***************************************************************************)
sha256_text(payload) == <<"sha256", payload>>

uuid5(namespace, name) == <<"uuid5", namespace, name>>

\* the NULL of an id-valued column
NullId == <<"null", "", <<>>>>

Bar == Lit(<<"|">>)

\* SourceRecord.source_uuid
source_uuid(source) == uuid5("URL", Cat(Lit(<<"s", "o", "u", "r", "c", "e", "|">>), source.id))

\* SourceRecord.canonical_doc_path
canonical_doc_path(source) ==
  IF source.url # None /\ source.url # <<>> THEN source.url
  ELSE IF source.local_path # None /\ source.local_path # <<>> THEN source.local_path
  ELSE Cat(Lit(<<"s", "o", "u", "r", "c", "e", ":">>), source.id)

(***************************************************************************)
(* Chunker: chunk_markdown                                                 *)
(***************************************************************************)
MinChunkChars == 60
DefaultMaxChars == 1000

RefWords ==
  { Lit(<<"s", "e", "c", "t", "i", "o", "n">>), Lit(<<"p", "a", "r", "t">>),
    Lit(<<"a", "r", "t", "i", "c", "l", "e">>), Lit(<<"s", "c", "h", "e", "d", "u", "l", "e">>) }

\* re.match(r"^(section|part|article|schedule)\b", h, re.IGNORECASE)
RefMatch(h) ==
  \E w \in RefWords :
    /\ StartsWith(Lower(h), w)
    /\ LET rest == Drop(h, StrLen(w)) IN rest = <<>> \/ ~IsWord(rest[1].c)

\* re.match(r"^page\s+(\d+)$", h, re.IGNORECASE); PageGroup is group(1)
PageTail(h) == LStripSet(Drop(h, 4), WhiteSpace)
PageMatch(h) ==
  /\ StartsWith(Lower(h), Lit(<<"p", "a", "g", "e">>))
  /\ Drop(h, 4) # <<>> /\ IsSpace(Drop(h, 4)[1].c)
  /\ PageTail(h) # <<>>
  /\ \A i \in 1..Len(PageTail(h)) : IsDigit(PageTail(h)[i].c)
PageGroup(h) == PageTail(h)

Hash == Lit(<<"#">>)
FrontmatterFence == Lit(<<"-", "-", "-">>)

\* stripped.lstrip("#").strip()
HeadingText(stripped) == Strip(LStripSet(stripped, {"#"}))

\* the text a flush would emit: re.sub(r"\s+", " ", " ".join(buffer)).strip()
FlushText(buffer) == Strip(CollapseWs(Join(Lit(<<" ">>), buffer)))

\* f"{source.id}|{section_ref or ''}|{text}"
ChunkHashInput(source, section_ref, text) ==
  CatAll(<<source.id, Bar, IF section_ref = None THEN <<>> ELSE section_ref, Bar, text>>)

ChunkHash(source, section_ref, text) == sha256_text(ChunkHashInput(source, section_ref, text))

\* an id that is drawn per call instead of derived from the hash alone
ChunkIdPerCall(chunk_hash) == uuid5("OID", <<chunk_hash, ck.call>>)

\* str(uuid.uuid5(uuid.NAMESPACE_OID, chunk_hash))
ChunkId(chunk_hash) == uuid5("OID", chunk_hash)

\* a flush whose threshold is off by one
TooShortOffByOne(text) == StrLen(text) + 1 < MinChunkChars

\* whether flush discards the text (len(text) < 60)
TooShort(text) == StrLen(text) < MinChunkChars

\* the locals of one chunk_markdown call
ChunkerStart ==
  [ heading_title |-> None, section_ref |-> None, page_ref |-> None,
    buffer |-> <<>>, chunks |-> <<>>, in_frontmatter |-> FALSE, discarded |-> 0 ]

\* chunk_markdown.flush
flush(source, st) ==
  LET text == FlushText(st.buffer) IN
  IF TooShort(text)
  THEN [st EXCEPT !.buffer = <<>>, !.discarded = @ + 1]
  ELSE LET chunk_hash == ChunkHash(source, st.section_ref, text) IN
       [st EXCEPT
          !.chunks = Append(@,
            [ id |-> ChunkId(chunk_hash),
              source_id |-> source_uuid(source),
              doc_path |-> canonical_doc_path(source),
              title |-> source.title,
              section_ref |-> st.section_ref,
              page_ref |-> st.page_ref,
              chunk_text |-> text,
              chunk_hash |-> chunk_hash,
              category |-> source.category,
              heading_title |-> st.heading_title ]),
          !.buffer = <<>>]

\* the body of chunk_markdown's loop over content_md.splitlines()
ChunkLine(source, st, line, max_chars) ==
  LET stripped == Strip(line) IN
  IF stripped = FrontmatterFence THEN [st EXCEPT !.in_frontmatter = ~@]
  ELSE IF st.in_frontmatter \/ stripped = <<>> THEN st
  ELSE IF StartsWith(stripped, Hash) THEN
    LET flushed == IF st.buffer # <<>> THEN flush(source, st) ELSE st
        ht == HeadingText(stripped)
    IN [flushed EXCEPT
          !.heading_title = ht,
          !.section_ref = IF RefMatch(ht) THEN ht ELSE @,
          !.page_ref = IF PageMatch(ht) THEN PageGroup(ht) ELSE @]
  ELSE
    LET added == [st EXCEPT !.buffer = Append(@, stripped)] IN
    IF SumLen(added.buffer) >= max_chars THEN flush(source, added) ELSE added

\* the statements after the loop: if buffer: flush()
ChunkEnd(source, st) == IF st.buffer # <<>> THEN flush(source, st) ELSE st

RECURSIVE ChunkLines(_, _, _, _)
ChunkLines(source, st, lines, max_chars) ==
  IF lines = <<>> THEN st
  ELSE ChunkLines(source, ChunkLine(source, st, Head(lines), max_chars), Tail(lines), max_chars)

\* chunk_markdown(source, content_md) with the default max_chars
chunk_markdown(source, content_md) ==
  ChunkEnd(source, ChunkLines(source, ChunkerStart, content_md, DefaultMaxChars)).chunks

(***************************************************************************)
(* Section-tree builder                                                    *)
(***************************************************************************)
SlugMaxChars == 80
WordsPerMinute == 200

\* re.sub(r"[^\w\s-]", "", ...) on one character
SlugKeepChar(c) == IF IsWord(c) \/ IsSpace(c) \/ c = "-" THEN c ELSE ""
\* re.sub(r"[\s_]+", "-", ...) followed by re.sub(r"-+", "-", ...)
SlugDashChar(c) == IF IsSpace(c) \/ c = "_" THEN "-" ELSE c
RECURSIVE SquashDashes(_)
SquashDashes(s) ==
  IF s = <<>> THEN <<>>
  ELSE IF s[1].c = "-" THEN <<Run("-", 1)>> \o SquashDashes(Tail(s))
  ELSE <<s[1]>> \o SquashDashes(Tail(s))

StripDashes(s) == RStripSet(LStripSet(s, {"-"}), {"-"})

\* the two character-level substitutions; a result of "" deletes the character
SlugKeep(s) == CatAll([i \in 1..Len(s) |-> Rep(SlugKeepChar(s[i].c), s[i].n)])
SlugDash(s) == CatAll([i \in 1..Len(s) |-> Rep(SlugDashChar(s[i].c), s[i].n)])

slugify(text) ==
  Take(StripDashes(SquashDashes(SlugDash(SlugKeep(Strip(Lower(text)))))),
       SlugMaxChars)

\* len(text.split()): the runs that end a word
WordCount(s) ==
  Cardinality({ i \in 1..Len(s) :
                  ~IsSpace(s[i].c) /\ (i = Len(s) \/ IsSpace(s[i + 1].c)) })

\* Python's round(n / d): to the nearest integer, a tie to the even one
PyRound(n, d) ==
  LET q == n \div d
      r == n % d
  IN IF 2 * r < d THEN q
     ELSE IF 2 * r > d THEN q + 1
     ELSE IF q % 2 = 0 THEN q ELSE q + 1

Max(a, b) == IF a >= b THEN a ELSE b

compute_reading_time(text) ==
  LET words == WordCount(text) IN
  [words |-> words, minutes |-> Max(1, PyRound(words, WordsPerMinute))]

\* str(n) for a natural number
DigitChars == <<"0", "1", "2", "3", "4", "5", "6", "7", "8", "9">>
RECURSIVE DigitStr(_)
DigitStr(n) ==
  IF n < 10 THEN Rep(DigitChars[n + 1], 1)
  ELSE Cat(DigitStr(n \div 10), Rep(DigitChars[(n % 10) + 1], 1))

Slash == Lit(<<"/">>)
NewLine == Lit(<<"\n">>)

\* Python truthiness of an optional string
Falsy(s) == s = None \/ s = <<>>

CategoryId(cat) == uuid5("URL", Cat(Lit(<<"c", "a", "t", "e", "g", "o", "r", "y", "|">>), cat))
DocId(source) == uuid5("URL", Cat(Lit(<<"d", "o", "c", "|">>), source.id))
SectionId(source, child_order, heading) ==
  uuid5("URL", CatAll(<<Lit(<<"s", "e", "c", "t", "i", "o", "n", "|">>), source.id, Bar,
                        DigitStr(child_order), Bar, heading>>))

\* the distinct categories of the sources, in first-seen order (the `seen` dict)
RECURSIVE FirstSeen(_, _)
FirstSeen(sources, seen) ==
  IF sources = <<>> THEN seen
  ELSE FirstSeen(Tail(sources),
         IF \E i \in 1..Len(seen) : seen[i] = Head(sources).category
         THEN seen ELSE Append(seen, Head(sources).category))

generate_category_nodes(sources) ==
  LET seen == FirstSeen(sources, <<>>) IN
  [ i \in 1..Len(seen) |->
      [ id |-> CategoryId(seen[i]), source_id |-> NullId, parent_id |-> NullId,
        slug |-> slugify(seen[i]), full_path |-> slugify(seen[i]), section_ref |-> None,
        title |-> seen[i], content_md |-> <<>>, sort_order |-> i - 1, level |-> 0,
        word_count |-> 0, reading_time_minutes |-> 0, is_placeholder |-> FALSE ] ]

\* the lines outside "---" fences, unstripped (the first loop of generate_doc_sections)
RECURSIVE BodyLines(_, _)
BodyLines(lines, in_frontmatter) ==
  IF lines = <<>> THEN <<>>
  ELSE IF Strip(Head(lines)) = FrontmatterFence THEN BodyLines(Tail(lines), ~in_frontmatter)
  ELSE IF in_frontmatter THEN BodyLines(Tail(lines), in_frontmatter)
  ELSE <<Head(lines)>> \o BodyLines(Tail(lines), in_frontmatter)

\* the same pattern with white space required after the "#" run
PageHeadingLineSpaced(line) ==
  LET a == LStripSet(line, WhiteSpace)
      b == LStripSet(a, {"#"})
  IN /\ a # <<>> /\ a[1].c = "#"
     /\ b # <<>> /\ IsSpace(b[1].c)
     /\ PageMatch(RStripSet(LStripSet(b, WhiteSpace), WhiteSpace))

\* re.match(r"^\s*#+\s*page\s+\d+\s*$", line, re.IGNORECASE)
PageHeadingLine(line) ==
  LET a == LStripSet(line, WhiteSpace)
      b == LStripSet(a, {"#"})
  IN /\ a # <<>> /\ a[1].c = "#"
     /\ PageMatch(RStripSet(LStripSet(b, WhiteSpace), WhiteSpace))

IsHeadingLine(line) == StartsWith(Strip(line), Hash)

\* generate_doc_sections.flush_section
flush_section(source, doc_path, doc_id, sec) ==
  LET text == Strip(Join(NewLine, sec.current_lines)) IN
  IF text = <<>> /\ Falsy(sec.current_heading)
  THEN [sec EXCEPT !.current_lines = <<>>]
  ELSE
    LET heading == IF Falsy(sec.current_heading)
                   THEN Lit(<<"I", "n", "t", "r", "o", "d", "u", "c", "t", "i", "o", "n">>)
                   ELSE sec.current_heading
        sec_slug == slugify(heading)
        metrics == IF text # <<>> THEN compute_reading_time(text)
                   ELSE [words |-> 0, minutes |-> 0]
    IN [sec EXCEPT
          !.sections = Append(@,
            [ id |-> SectionId(source, sec.child_order, heading),
              source_id |-> source_uuid(source), parent_id |-> doc_id,
              slug |-> sec_slug, full_path |-> CatAll(<<doc_path, Slash, sec_slug>>),
              section_ref |-> sec.current_ref, title |-> heading, content_md |-> text,
              sort_order |-> sec.child_order, level |-> 2,
              word_count |-> metrics.words, reading_time_minutes |-> metrics.minutes,
              is_placeholder |-> FALSE ]),
          !.child_order = @ + 1,
          !.current_lines = <<>>]

\* the loop `for line in body_lines` of generate_doc_sections
RECURSIVE SectionLines(_, _, _, _, _)
SectionLines(source, doc_path, doc_id, sec, lines) ==
  IF lines = <<>> THEN sec
  ELSE
    LET line == Head(lines)
        stripped == Strip(line)
    IN IF StartsWith(stripped, Hash)
       THEN LET flushed == flush_section(source, doc_path, doc_id, sec)
                ht == HeadingText(stripped)
            IN SectionLines(source, doc_path, doc_id,
                 [flushed EXCEPT !.current_heading = ht,
                                 !.current_ref = IF RefMatch(ht) THEN ht ELSE None],
                 Tail(lines))
       ELSE SectionLines(source, doc_path, doc_id,
              [sec EXCEPT !.current_lines = Append(@, line)], Tail(lines))

generate_doc_sections(source, content_md, category_slug, category_id) ==
  LET doc_slug == slugify(source.id)
      doc_path == CatAll(<<category_slug, Slash, doc_slug>>)
      body_lines == BodyLines(content_md, FALSE)
      body == Strip(Join(NewLine, body_lines))
      doc_metrics == compute_reading_time(body)
      doc_id == DocId(source)
      doc_node ==
        [ id |-> doc_id, source_id |-> source_uuid(source), parent_id |-> category_id,
          slug |-> doc_slug, full_path |-> doc_path, section_ref |-> None,
          title |-> source.title, content_md |-> <<>>, sort_order |-> 0, level |-> 1,
          word_count |-> doc_metrics.words, reading_time_minutes |-> doc_metrics.minutes,
          is_placeholder |-> FALSE ]
      \* line.lstrip("#").strip() of every line whose strip() starts with "#"
      headings == SelectSeq(body_lines, IsHeadingLine)
      all_page_headings ==
        /\ headings # <<>>
        /\ \A i \in 1..Len(headings) : PageMatch(Strip(LStripSet(headings[i], {"#"})))
  IN
  IF all_page_headings
  THEN LET NotPageHeading(line) == ~PageHeadingLine(line)
           collapsed == Strip(Join(NewLine, SelectSeq(body_lines, NotPageHeading)))
           metrics == IF collapsed # <<>> THEN compute_reading_time(collapsed)
                      ELSE [words |-> 0, minutes |-> 0]
       IN << [doc_node EXCEPT !.content_md = collapsed,
                              !.word_count = metrics.words,
                              !.reading_time_minutes = metrics.minutes] >>
  ELSE LET start == [ current_heading |-> None, current_ref |-> None,
                      current_lines |-> <<>>, child_order |-> 0, sections |-> <<doc_node>> ]
           looped == SectionLines(source, doc_path, doc_id, start, body_lines)
           sections == flush_section(source, doc_path, doc_id, looped).sections
       IN IF Len(sections) = 1
          THEN << [doc_node EXCEPT !.content_md = body] >>
          ELSE sections

generate_placeholder_sections(source, category_slug, category_id) ==
  LET doc_slug == slugify(source.id) IN
  << [ id |-> DocId(source), source_id |-> NullId, parent_id |-> category_id,
       slug |-> doc_slug, full_path |-> CatAll(<<category_slug, Slash, doc_slug>>),
       section_ref |-> None, title |-> source.title, content_md |-> <<>>,
       sort_order |-> 0, level |-> 1, word_count |-> 0, reading_time_minutes |-> 0,
       is_placeholder |-> TRUE ] >>

(***************************************************************************)
(* Normalizer: normalize_sources.  A raw artifact is represented by what   *)
(* its parser makes of it: either the parser raises, or it returns the     *)
(* body lines.                                                             *)
(***************************************************************************)
\* parse_html on a page without Akoma Ntoso markup: `nodes` are the h1..h6, p
\* and li elements container.find_all returns, each with its get_text(" ", strip=True)
HtmlNode(name, text) == [name |-> name, text |-> text]
HeadingNames == <<"h1", "h2", "h3", "h4", "h5", "h6">>
IsHeadingNode(node) == \E k \in 1..6 : HeadingNames[k] = node.name
HeadingLevel(node) == CHOOSE k \in 1..6 : HeadingNames[k] = node.name

HtmlNodeLines(node) ==
  IF node.text = <<>> THEN <<>>
  ELSE IF IsHeadingNode(node)
       THEN << CatAll(<<Rep("#", HeadingLevel(node)), Lit(<<" ">>), node.text>>), <<>> >>
  ELSE IF node.name = "li" THEN << Cat(Lit(<<"-", " ">>), node.text) >>
  ELSE << node.text, <<>> >>

\* "\n".join(lines).strip(), kept as lines: the blank lines at both ends go
RECURSIVE TrimBlankLines(_)
TrimBlankLines(lines) ==
  IF lines = <<>> THEN <<>>
  ELSE IF Head(lines) = <<>> THEN TrimBlankLines(Tail(lines))
  ELSE IF lines[Len(lines)] = <<>> THEN TrimBlankLines(SubSeq(lines, 1, Len(lines) - 1))
  ELSE lines

RECURSIVE HtmlLines(_)
HtmlLines(nodes) ==
  IF nodes = <<>> THEN <<>> ELSE HtmlNodeLines(Head(nodes)) \o HtmlLines(Tail(nodes))

parse_html(nodes) == TrimBlankLines(HtmlLines(nodes))

NoFile == [present |-> FALSE, parses |-> FALSE, body |-> <<>>]
Artifact(body) == [present |-> TRUE, parses |-> TRUE, body |-> body]
Unparseable == [present |-> TRUE, parses |-> FALSE, body |-> <<>>]

\* find_raw_input(source, ingest_dir) is not None
HasRawInput(source, ingest_dir) == ingest_dir[source.id].present

Quote == Lit(<<"\"">>)
MetaLine(key, value) == CatAll(<<key, Lit(<<":", " ">>), Quote, value, Quote>>)

\* the "\n".join([...]) of normalize_sources, as the lines splitlines() gives back
\* (the doc_type and language_code lines belong to columns left out of SourceRecord)
NormalizedContent(source, body) ==
  << FrontmatterFence,
     MetaLine(Lit(<<"t", "i", "t", "l", "e">>), source.title),
     MetaLine(Lit(<<"c", "a", "t", "e", "g", "o", "r", "y">>), source.category),
     MetaLine(Lit(<<"s", "o", "u", "r", "c", "e", "_", "i", "d">>), source.id),
     FrontmatterFence,
     <<>> >> \o body \o << <<>> >>

NormalizeStatus(source, ingest_dir) ==
  IF ~HasRawInput(source, ingest_dir)
  THEN IF source.acquisition = "manual_download" THEN "PENDING" ELSE "MISSING_RAW"
  ELSE IF ingest_dir[source.id].parses THEN "PARSED" ELSE "FAILED"

\* normalize_sources(sources, ingest_dir): the normalized list and the status rows
normalize_sources(sources, ingest_dir) ==
  LET Parsed(source) == NormalizeStatus(source, ingest_dir) = "PARSED"
      parsed == SelectSeq(sources, Parsed)
  IN [ normalized |->
         [ i \in 1..Len(parsed) |->
             [ source |-> parsed[i],
               content_md |-> NormalizedContent(parsed[i], ingest_dir[parsed[i].id].body) ] ],
       statuses |->
         [ i \in 1..Len(sources) |->
             [ source_id |-> sources[i].id,
               status |-> NormalizeStatus(sources[i], ingest_dir) ] ] ]

(***************************************************************************)
(* Loader: load_to_postgres.  A table is a bag of rows.  The store         *)
(* enforces the uniqueness its ON CONFLICT targets name.                   *)
(***************************************************************************)
Rows(tbl) == BagToSet(tbl)

RECURSIVE SumCopies(_, _)
SumCopies(tbl, rs) ==
  IF rs = {} THEN 0
  ELSE LET r == CHOOSE x \in rs : TRUE IN tbl[r] + SumCopies(tbl, rs \ {r})

\* DO UPDATE SET <every column but id and the conflict target>: a row that
\* conflicts takes the values of `row` and keeps its id
Merge(r, row) == [row EXCEPT !.id = r.id]

\* replace every row r of `hits` by Merge(r, row)
ReplaceRows(tbl, hits, row) ==
  LET kept == Rows(tbl) \ hits
      merged == { Merge(r, row) : r \in hits }
  IN [ x \in kept \cup merged |->
         (IF x \in kept THEN tbl[x] ELSE 0)
           + SumCopies(tbl, { r \in hits : Merge(r, row) = x }) ]

InsertRow(tbl, row) == tbl (+) SetToBag({row})

\* a plain INSERT of a source row
InsertSource(tbl, row) == InsertRow(tbl, row)

\* INSERT INTO sources ... ON CONFLICT (source_key) DO UPDATE SET <all but id, source_key>
UpsertSource(tbl, row) ==
  LET hits == { r \in Rows(tbl) : r.source_key = row.source_key }
  IN IF hits = {} THEN InsertRow(tbl, row) ELSE ReplaceRows(tbl, hits, row)

\* INSERT INTO source_documents ... ON CONFLICT (doc_path) DO UPDATE SET title, category, content_md
UpsertSourceDocument(tbl, row) ==
  LET hits == { r \in Rows(tbl) : r.doc_path = row.doc_path }
  IN IF hits = {} THEN InsertRow(tbl, row) ELSE ReplaceRows(tbl, hits, row)

\* a plain INSERT of a chunk row
InsertChunk(tbl, row) == InsertRow(tbl, row)

\* INSERT INTO source_chunks ... ON CONFLICT (chunk_hash) DO UPDATE SET <all but id, chunk_hash>
UpsertChunk(tbl, row) ==
  LET hits == { r \in Rows(tbl) : r.chunk_hash = row.chunk_hash }
  IN IF hits = {} THEN InsertRow(tbl, row) ELSE ReplaceRows(tbl, hits, row)

\* _SECTION_UPSERT: ON CONFLICT (full_path) DO UPDATE SET <all but id, full_path>
UpsertSection(tbl, row) ==
  LET hits == { r \in Rows(tbl) : r.full_path = row.full_path }
  IN IF hits = {} THEN InsertRow(tbl, row) ELSE ReplaceRows(tbl, hits, row)

\* cur.execute(statement, row); a statement is named by the table it writes
Execute(statement, tbl, row) ==
  CASE statement = "source_documents" -> UpsertSourceDocument(tbl, row)
    [] statement = "sources" -> UpsertSource(tbl, row)
    [] statement = "source_chunks" -> UpsertChunk(tbl, row)
    [] statement = "doc_sections" -> UpsertSection(tbl, row)

\* a loop of cur.execute over a list of rows
RECURSIVE ExecuteAll(_, _, _)
ExecuteAll(statement, tbl, rows) ==
  IF rows = <<>> THEN tbl
  ELSE ExecuteAll(statement, Execute(statement, tbl, Head(rows)), Tail(rows))

\* a delete that is scoped to the categories of the current run
DeleteStaleInRunCategories(tbl, upserted_paths) ==
  LET stale == { r \in Rows(tbl) :
                   /\ \A i \in 1..Len(upserted_paths) : r.full_path # upserted_paths[i]
                   /\ \E i \in 1..Len(upserted_paths) :
                        StartsWith(r.full_path, Cat(upserted_paths[i], Slash)) }
  IN [ x \in Rows(tbl) \ stale |-> tbl[x] ]

\* DELETE FROM doc_sections WHERE full_path != ALL(upserted_paths)
DeleteStale(tbl, upserted_paths) ==
  LET stale == { r \in Rows(tbl) :
                   \A i \in 1..Len(upserted_paths) : r.full_path # upserted_paths[i] }
  IN [ x \in Rows(tbl) \ stale |-> tbl[x] ]

SourceRow(source, content_md) ==
  [ id |-> source_uuid(source), source_key |-> source.id,
    doc_path |-> canonical_doc_path(source), title |-> source.title,
    category |-> source.category, source_type |-> source.source_type,
    source_url |-> source.url, acquisition |-> source.acquisition,
    local_path |-> source.local_path, content_hash |-> sha256_text(content_md) ]

SourceDocumentRow(row) ==
  [ id |-> row.id, doc_path |-> row.doc_path, title |-> row.title,
    category |-> row.category, content_hash |-> row.content_hash ]

RECURSIVE Flatten(_)
Flatten(qs) == IF qs = <<>> THEN <<>> ELSE Head(qs) \o Flatten(Tail(qs))

\* cat_lookup.get(source.category, ("general", str(uuid.uuid4())))
CatLookup(category_nodes, category) ==
  IF \E i \in 1..Len(category_nodes) : category_nodes[i].title = category
  THEN LET node == category_nodes[CHOOSE i \in 1..Len(category_nodes) :
                                     category_nodes[i].title = category]
       IN [slug |-> node.full_path, id |-> node.id]
  ELSE [slug |-> Lit(<<"g", "e", "n", "e", "r", "a", "l">>), id |-> <<"uuid4", "", <<>>>>]

\* the rows load_to_postgres prepares before it opens its transaction
LoadRows(normalized, all_sources) ==
  LET ingested_sources == [i \in 1..Len(normalized) |-> normalized[i].source]
      sources == IF all_sources # <<>> THEN all_sources ELSE ingested_sources
      category_nodes == generate_category_nodes(sources)
      DocSections(row) ==
        LET cat == CatLookup(category_nodes, row.source.category)
        IN generate_doc_sections(row.source, row.content_md, cat.slug, cat.id)
      Pending(source) ==
        /\ \A i \in 1..Len(ingested_sources) : ingested_sources[i].id # source.id
        /\ source.acquisition = "manual_download"
      Placeholder(source) ==
        LET cat == CatLookup(category_nodes, source.category)
        IN generate_placeholder_sections(source, cat.slug, cat.id)
      pending == SelectSeq(sources, Pending)
  IN [ source_rows |->
         [i \in 1..Len(normalized) |-> SourceRow(normalized[i].source, normalized[i].content_md)],
       chunk_rows |->
         Flatten([i \in 1..Len(normalized) |->
                    chunk_markdown(normalized[i].source, normalized[i].content_md)]),
       category_nodes |-> category_nodes,
       section_rows |->
         Flatten([i \in 1..Len(normalized) |-> DocSections(normalized[i])])
           \o Flatten([i \in 1..Len(pending) |-> Placeholder(pending[i])]) ]

\* upserted_paths: the full_path of every node, in the order it is upserted
UpsertedPaths(rows) ==
  [i \in 1..Len(rows.category_nodes) |-> rows.category_nodes[i].full_path]
    \o [i \in 1..Len(rows.section_rows) |-> rows.section_rows[i].full_path]

EmptyTables ==
  [ sources |-> EmptyBag, source_documents |-> EmptyBag,
    source_chunks |-> EmptyBag, doc_sections |-> EmptyBag ]

\* psycopg.connect(database_url, autocommit=...)
AutocommitOn == TRUE
Autocommit == FALSE

(***************************************************************************)
(* Inputs of the chunker runs                                              *)
(***************************************************************************)
MaxLines == 3

X(n) == Rep("x", n)

\* SourceRecord (the pass-through columns publisher, doc_type, effective_*,
\* notes and language_code are left out)
MkSource(id, title, category, source_type, acquisition, url, local_path) ==
  [ id |-> id, title |-> title, category |-> category, source_type |-> source_type,
    acquisition |-> acquisition, url |-> url, local_path |-> local_path ]

IdA == Lit(<<"a">>)
IdAPart == Lit(<<"a", "|", "p", "a", "r", "t">>)
CatVAT == Lit(<<"V", "A", "T">>)

ChunkSources ==
  { MkSource(id, Lit(<<"t">>), CatVAT, "html", "manual_download", None, None) :
      id \in {IdA, IdAPart} }

LineFence == FrontmatterFence
LineBlank == <<>>
LineHPart == Lit(<<"#", " ", "p", "a", "r", "t">>)
LineHPage == Lit(<<"#", "#", " ", "P", "a", "g", "e", " ", "1">>)
LineHPlain == Lit(<<"#", " ", "x">>)
\* 60 characters that normalize to 59
LineShort == CatAll(<<X(30), Rep(" ", 2), Rep("y", 28)>>)
Line60 == X(60)
LinePipe == Cat(Bar, X(60))
Line500 == Rep("y", 500)

ChunkLinesPool ==
  { LineFence, LineBlank, LineHPart, LineHPage, LineHPlain,
    LineShort, Line60, LinePipe, Line500 }

SeqsUpTo(S, n) == UNION { [1..k -> S] : k \in 0..n }

ChunkDocs == SeqsUpTo(ChunkLinesPool, MaxLines)

\* inputs the second call may take besides the first call's own
ProbeDocs == { <<Line60>>, <<LineHPart, LinePipe>>, <<LineHPart, Line60>> }

(***************************************************************************)
(* Two successive chunk_markdown calls, stepped line by line               *)
(***************************************************************************)
ChunkCall(n, source, content, first) ==
  [ pc |-> "loop", call |-> n, source |-> source, content |-> content, i |-> 1,
    st |-> ChunkerStart, first |-> first ]

NoCall == [ source |-> None, content |-> <<>>, chunks |-> <<>> ]


(***************************************************************************)
(* Inputs of the pipeline runs                                             *)
(***************************************************************************)
MaxRuns == 2

IdB == Lit(<<"b">>)
CatVat == Lit(<<"V", "a", "t">>)
CatPAYE == Lit(<<"P", "A", "Y", "E">>)

SrcA == MkSource(IdA, Lit(<<"t">>), CatVAT, "html", "fetch", Lit(<<"u">>), None)
\* the same source after its category was re-spelled in the registry
SrcARespelled == MkSource(IdA, Lit(<<"t">>), CatVat, "html", "fetch", Lit(<<"u">>), None)
SrcB == MkSource(IdB, Lit(<<"t">>), CatPAYE, "pdf", "manual_download", None, Lit(<<"p">>))

CatPaye == Lit(<<"P", "a", "y", "e">>)
SrcBRespelled == MkSource(IdB, Lit(<<"t">>), CatPaye, "pdf", "manual_download", None, Lit(<<"p">>))

SourceIds == {IdA, IdB}

\* the registries a command may find
Registries ==
  { <<>>, <<SrcA>>, <<SrcARespelled>>, <<SrcB>>, <<SrcA, SrcB>>, <<SrcARespelled, SrcB>>,
    <<SrcA, SrcBRespelled>> }

\* an HTML page with two h2 headings, each followed by a paragraph of 61 characters
FixtureHtml ==
  << HtmlNode("h2", Lit(<<"p", "a", "r", "t">>)), HtmlNode("p", X(61)),
     HtmlNode("h2", Lit(<<"x">>)), HtmlNode("p", LinePipe) >>
BodyTwo == parse_html(FixtureHtml)
\* the same heading twice, the second paragraph too short to chunk
BodyRepeat == <<LineHPlain, Line60, LineHPlain, LineShort>>
\* a PDF body: page headings only
BodyPages == <<LineHPage, LineBlank, Line60>>

\* the raw artifacts a command may find for each source id
FileStatesOf(id) ==
  IF id = IdA THEN {NoFile, Unparseable, Artifact(BodyTwo), Artifact(BodyRepeat)}
  ELSE {NoFile, Unparseable, Artifact(BodyPages)}

Declared(r) == { r[i].id : i \in 1..Len(r) }

\* the working directories a command may find, given its registry
WorkingDirs(r) ==
  { f \in [SourceIds -> UNION { FileStatesOf(id) : id \in SourceIds }] :
      \A id \in SourceIds :
        f[id] \in (IF id \in Declared(r) THEN FileStatesOf(id) ELSE {NoFile}) }

(***************************************************************************)
(* The pipeline: run_ingest_pipeline and the transaction of                *)
(* load_to_postgres, one step per group of statements                      *)
(***************************************************************************)
NoRows == [source_rows |-> <<>>, chunk_rows |-> <<>>, category_nodes |-> <<>>, section_rows |-> <<>>]

IdleLoad(runs, prev_normalized) ==
  [ pc |-> "idle", failed_at |-> "", runs |-> runs, statuses |-> <<>>,
    normalized |-> <<>>, rows |-> NoRows,
    upserted_paths |-> <<>>, tx |-> EmptyTables, pre |-> EmptyTables,
    prev_normalized |-> prev_normalized ]

InFlight == {"upsert_sources", "upsert_chunks", "upsert_sections", "delete_stale", "commit"}

\* what other sessions see while the transaction is open
Visible(committed, tx) == IF Autocommit THEN tx ELSE committed

ChunkerOff ==
  [ ChunkCall(0, MkSource(IdA, <<>>, <<>>, "html", "fetch", None, None), <<>>, NoCall)
      EXCEPT !.pc = "off" ]

NoRegistry == <<>>
NoWorkingDir == [id \in SourceIds |-> NoFile]

Init ==
  /\ registry = NoRegistry
  /\ files = NoWorkingDir
  /\ db = EmptyTables
  /\ load = IdleLoad(0, <<>>)
  /\ ck = ChunkerOff
  /\ CallersOff

\* a run that parsed something still goes through the whole load
SkipsLoadNever(normalized) == FALSE

\* `if not normalized: return` of run_ingest_pipeline, and again
\* `if not source_rows: return` of load_to_postgres: no connection is opened
SkipsLoad(normalized) == normalized = <<>>

\* command_ingest: load_sources, then run_ingest_pipeline up to the opening of
\* the load transaction; the command finds some registry and working directory
Ingest ==
  /\ load.pc = "idle"
  /\ load.runs < MaxRuns
  /\ \E r \in Registries : \E f \in WorkingDirs(r) :
       /\ registry' = r
       /\ files' = f
       /\ LET n == normalize_sources(r, f) IN
          IF SkipsLoad(n.normalized)
          THEN load' = [load EXCEPT !.pc = "skipped", !.runs = @ + 1, !.statuses = n.statuses]
          ELSE load' = [load EXCEPT
                 !.pc = "upsert_sources", !.runs = @ + 1, !.statuses = n.statuses,
                 !.normalized = n.normalized, !.rows = LoadRows(n.normalized, r),
                 !.tx = db, !.pre = db]
  /\ UNCHANGED <<db, ck, callers>>

Step(next_pc, tx) ==
  /\ load' = [load EXCEPT !.pc = next_pc, !.tx = tx]
  /\ db' = Visible(db, tx)
  /\ UNCHANGED <<registry, files, ck, callers>>

\* `for source in source_rows`: source_documents and sources
UpsertSources ==
  /\ load.pc = "upsert_sources"
  /\ Step("upsert_chunks",
       [load.tx EXCEPT
          !.source_documents =
             ExecuteAll("source_documents", @,
               [i \in 1..Len(load.rows.source_rows) |-> SourceDocumentRow(load.rows.source_rows[i])]),
          !.sources = ExecuteAll("sources", @, load.rows.source_rows)])

\* a delete-then-insert refresh of the chunk table
UpsertChunksAfterPurge ==
  /\ load.pc = "upsert_chunks"
  /\ Step("upsert_sections",
       [load.tx EXCEPT !.source_chunks = ExecuteAll("source_chunks", EmptyBag, load.rows.chunk_rows)])

\* `for chunk in chunk_rows`
UpsertChunks ==
  /\ load.pc = "upsert_chunks"
  /\ Step("upsert_sections",
       [load.tx EXCEPT !.source_chunks = ExecuteAll("source_chunks", @, load.rows.chunk_rows)])

\* `for node in category_nodes` and `for sec in section_rows`
UpsertSections ==
  /\ load.pc = "upsert_sections"
  /\ load' = [load EXCEPT
       !.pc = "delete_stale",
       !.tx.doc_sections =
          ExecuteAll("doc_sections", ExecuteAll("doc_sections", @, load.rows.category_nodes),
                     load.rows.section_rows),
       !.upserted_paths = UpsertedPaths(load.rows)]
  /\ db' = Visible(db, load'.tx)
  /\ UNCHANGED <<registry, files, ck, callers>>

\* `if upserted_paths: DELETE ...`
DeleteStaleNodes ==
  /\ load.pc = "delete_stale"
  /\ Step("commit",
       IF load.upserted_paths # <<>>
       THEN [load.tx EXCEPT !.doc_sections = DeleteStale(@, load.upserted_paths)]
       ELSE load.tx)

\* conn.commit()
Commit ==
  /\ load.pc = "commit"
  /\ load' = [load EXCEPT !.pc = "committed"]
  /\ db' = load.tx
  /\ UNCHANGED <<registry, files, ck, callers>>

\* a statement raises, or the run is killed: the transaction is rolled back
LoadFail ==
  /\ load.pc \in InFlight
  /\ load' = [load EXCEPT !.pc = "rolled_back", !.failed_at = load.pc, !.tx = load.pre]
  /\ UNCHANGED <<registry, files, db, ck, callers>>

\* the command ends
Return ==
  /\ load.pc \in {"committed", "rolled_back", "skipped"}
  /\ load' = IdleLoad(load.runs,
               IF load.pc = "committed" THEN load.normalized ELSE load.prev_normalized)
  /\ registry' = NoRegistry
  /\ files' = NoWorkingDir
  /\ UNCHANGED <<db, ck, callers>>

Next ==
  \/ Ingest
  \/ UpsertSources
  \/ UpsertChunks
  \/ UpsertSections
  \/ DeleteStaleNodes
  \/ Commit
  \/ LoadFail
  \/ Return

Spec == Init /\ [][Next]_vars

(***************************************************************************)
(* A caller of chunk_markdown, stepped line by line                        *)
(***************************************************************************)
\* normalized documents whose body has a pair of '---' lines around a heading
FencedBodies ==
  { <<LineFence, LineHPart, LineFence, Line60>>,
    <<Line60, LineFence, LineHPage, LineFence, LinePipe>> }
FencedDocs == { NormalizedContent(SrcA, body) : body \in FencedBodies }

InitChunk ==
  /\ \E source \in ChunkSources, content \in ChunkDocs \cup FencedDocs :
       ck = ChunkCall(1, source, content, NoCall)
  /\ registry = NoRegistry
  /\ files = NoWorkingDir
  /\ db = EmptyTables
  /\ load = IdleLoad(0, <<>>)
  /\ CallersOff

\* one iteration of `for line in content_md.splitlines()`
ChunkStep ==
  /\ ck.pc = "loop"
  /\ ck.i <= Len(ck.content)
  /\ ck' = [ck EXCEPT
       !.st = ChunkLine(ck.source, ck.st, ck.content[ck.i], DefaultMaxChars),
       !.i = @ + 1]
  /\ UNCHANGED <<registry, files, db, load, callers>>

\* the final flush and `return chunks`
ChunkReturn ==
  /\ ck.pc = "loop"
  /\ ck.i > Len(ck.content)
  /\ ck' = [ck EXCEPT !.st = ChunkEnd(ck.source, ck.st), !.pc = "returned"]
  /\ UNCHANGED <<registry, files, db, load, callers>>

\* the caller keeps the first result and calls chunk_markdown again
ChunkAgain ==
  /\ ck.pc = "returned"
  /\ ck.call = 1
  /\ \E source \in ChunkSources, content \in {ck.content} \cup ProbeDocs :
       ck' = ChunkCall(2, source, content,
               [source |-> ck.source, content |-> ck.content, chunks |-> ck.st.chunks])
  /\ UNCHANGED <<registry, files, db, load, callers>>

NextChunk == ChunkStep \/ ChunkReturn \/ ChunkAgain

SpecChunk == InitChunk /\ [][NextChunk]_vars

(***************************************************************************)
(* Chunker claims (checked under SpecChunk)                                *)
(***************************************************************************)
SeqToSet(q) == { q[i] : i \in 1..Len(q) }

\* every chunk the two calls have produced so far, with the id of its source
ChunksOfCalls ==
  { [src |-> ck.first.source.id, chunk |-> c] : c \in SeqToSet(ck.first.chunks) }
    \cup { [src |-> ck.source.id, chunk |-> c] : c \in SeqToSet(ck.st.chunks) }

\* C6: every chunk has content_hash = SHA-256 of "source id|section_ref|text"
\* and id = f(content_hash); two chunks have the same id if and only if they
\* have the same source id, the same section_ref and the same normalized text.
C6_ChunkIdentity ==
  \A x \in ChunksOfCalls, y \in ChunksOfCalls :
    /\ x.chunk.chunk_hash = sha256_text(ChunkHashInput([id |-> x.src], x.chunk.section_ref, x.chunk.chunk_text))
    /\ x.chunk.id = uuid5("OID", x.chunk.chunk_hash)
    /\ (x.chunk.id = y.chunk.id) <=>
         ( /\ x.src = y.src
           /\ x.chunk.section_ref = y.chunk.section_ref
           /\ x.chunk.chunk_text = y.chunk.chunk_text )

ChunksLongEnough ==
  \A c \in SeqToSet(ck.st.chunks) : StrLen(c.chunk_text) >= MinChunkChars

FlushEmptiesBuffer ==
  (ck'.call = ck.call) =>
    /\ (ck'.st.discarded # ck.st.discarded) =>
         (ck'.st.buffer = <<>> /\ ck'.st.chunks = ck.st.chunks)
    /\ (ck'.st.chunks # ck.st.chunks) =>
         (ck'.st.buffer = <<>> /\ ck'.st.discarded = ck.st.discarded)

\* C8: every chunk has at least 60 characters of normalized text; a buffer
\* that is shorter at flush time is discarded without becoming a chunk, and
\* the buffer is emptied whether the flush emits or discards.
C8_MinLength == []ChunksLongEnough /\ [][FlushEmptiesBuffer]_vars

C8_Witness ==
  /\ ck.pc = "returned"
  /\ ck.st.discarded >= 1
  /\ Len(ck.st.chunks) >= 1

(***************************************************************************)
(* Loader claims (checked under Spec)                                      *)
(***************************************************************************)
ChunkKeys(tbl) == { <<r.id, r.chunk_hash>> : r \in Rows(tbl) }
ChunkHashes(tbl) == { r.chunk_hash : r \in Rows(tbl) }
SourceKeys(tbl) == { r.source_key : r \in Rows(tbl) }
Paths(tbl) == { r.full_path : r \in Rows(tbl) }

\* the nodes the run generated, in the order they are upserted
GeneratedNodes == load.rows.category_nodes \o load.rows.section_rows
GeneratedPaths == { GeneratedNodes[i].full_path : i \in 1..Len(GeneratedNodes) }

\* this load repeats the previous committed load on unchanged normalized sources
IsReload == load.pc = "committed" /\ load.normalized = load.prev_normalized

\* C1: a load that repeats the previous load on the same normalized sources
\* leaves the chunk table as the first load left it: the row count does not
\* grow and the (id, chunk_hash) pairs are the same.
C1_IdempotentReload ==
  IsReload =>
    /\ BagCardinality(db.source_chunks) = BagCardinality(load.pre.source_chunks)
    /\ ChunkKeys(db.source_chunks) = ChunkKeys(load.pre.source_chunks)
    /\ db.source_chunks = load.pre.source_chunks

C1_Witness ==
  /\ IsReload
  /\ Len(load.rows.chunk_rows) >= 2
  /\ BagCardinality(db.source_chunks) >= 2

StoreOnlyGrows ==
  /\ SourceKeys(db.sources) \subseteq SourceKeys(db'.sources)
  /\ ChunkHashes(db.source_chunks) \subseteq ChunkHashes(db'.source_chunks)
  /\ BagCardinality(db.sources) <= BagCardinality(db'.sources)
  /\ BagCardinality(db.source_chunks) <= BagCardinality(db'.source_chunks)

\* C3: no step of any run removes a row of sources or source_chunks: the
\* stored source keys and chunk hashes never decrease.
C3_AppendOnly == [][StoreOnlyGrows]_vars

NormalizedIds == { load.normalized[i].source.id : i \in 1..Len(load.normalized) }

\* a committed load that left out a stored source, whose rows are still there
C3_Witness ==
  /\ load.pc = "committed"
  /\ \E r \in Rows(db.sources) :
       /\ r.source_key \notin NormalizedIds
       /\ \E c \in Rows(db.source_chunks) : c.source_id = r.id

RowsOfSource(tbl, id) == { r \in Rows(tbl) : r.source_id = id }

FailedToNormalize ==
  { load.statuses[i].source_id : i \in { j \in 1..Len(load.statuses) :
      load.statuses[j].status \in {"FAILED", "MISSING_RAW"} } }

\* C4: a source that fails to normalize in a run that loads other sources is
\* left out of the load, and its source row, its chunks and its tree nodes
\* are after the run what they were before it.
C4_FailureIsolation ==
  load.pc = "committed" =>
    \A key \in FailedToNormalize :
      /\ key \notin NormalizedIds
      /\ \A s \in Rows(load.pre.sources) :
           s.source_key = key =>
             /\ s \in Rows(db.sources)
             /\ RowsOfSource(db.source_chunks, s.id) = RowsOfSource(load.pre.source_chunks, s.id)
             /\ RowsOfSource(db.doc_sections, s.id) = RowsOfSource(load.pre.doc_sections, s.id)

\* the part of C4 that the code keeps: the source row and the chunks stay
C4_SourceAndChunksKept ==
  load.pc = "committed" =>
    \A key \in FailedToNormalize :
      /\ key \notin NormalizedIds
      /\ \A s \in Rows(load.pre.sources) :
           s.source_key = key =>
             /\ s \in Rows(db.sources)
             /\ RowsOfSource(db.source_chunks, s.id) = RowsOfSource(load.pre.source_chunks, s.id)

AllStepsTookEffect ==
  /\ \A i \in 1..Len(load.rows.source_rows) :
       load.rows.source_rows[i].source_key \in SourceKeys(db.sources)
  /\ \A i \in 1..Len(load.rows.chunk_rows) :
       load.rows.chunk_rows[i].chunk_hash \in ChunkHashes(db.source_chunks)
  /\ GeneratedPaths \subseteq Paths(db.doc_sections)
  /\ Paths(db.doc_sections) \subseteq GeneratedPaths

\* C5: the four steps of a load take effect together or not at all: while the
\* transaction is open, and after a failure or a kill, the committed tables
\* are what they were when the load started; after the commit all four steps
\* have taken effect.
C5_LoadAtomic ==
  /\ load.pc \in InFlight \cup {"rolled_back"} => db = load.pre
  /\ load.pc = "committed" => (db = load.tx /\ AllStepsTookEffect)

\* killed after the last statement and before the commit, with work pending
C5_Witness ==
  /\ load.pc = "rolled_back"
  /\ load.failed_at = "commit"
  /\ db = load.pre
  /\ db.sources # EmptyBag
  /\ \E i \in 1..Len(load.rows.chunk_rows) :
       load.rows.chunk_rows[i].chunk_hash \notin ChunkHashes(db.source_chunks)
  /\ Paths(db.doc_sections) # GeneratedPaths

\* C9: no two nodes generated by one run share a full_path.
C9_FullPathUnique ==
  \A i \in 1..Len(GeneratedNodes), j \in 1..Len(GeneratedNodes) :
    i # j => GeneratedNodes[i].full_path # GeneratedNodes[j].full_path

ParentsOf(tbl, r) == { p \in Rows(tbl) : p.id = r.parent_id }

RECURSIVE AncestorsWithin(_, _, _)
AncestorsWithin(tbl, rs, k) ==
  IF k = 0 \/ rs = {} THEN {}
  ELSE LET ps == UNION { ParentsOf(tbl, r) : r \in rs }
       IN ps \cup AncestorsWithin(tbl, ps, k - 1)

ParentBeforeChild ==
  \A j \in 1..Len(GeneratedNodes) :
    GeneratedNodes[j].parent_id # NullId =>
      \E i \in 1..(j - 1) : GeneratedNodes[i].id = GeneratedNodes[j].parent_id

\* C10: after every committed load each stored node with a parent_id refers to
\* the id of a stored node, level-0 nodes have no parent, following parent_id
\* never cycles, and the load upserts each parent before its children.
C10_TreeWellFormed ==
  load.pc = "committed" =>
    /\ \A r \in Rows(db.doc_sections) :
         /\ r.parent_id # NullId => ParentsOf(db.doc_sections, r) # {}
         /\ r.level = 0 => r.parent_id = NullId
         /\ r \notin AncestorsWithin(db.doc_sections, {r}, BagCardinality(db.doc_sections))
    /\ ParentBeforeChild

\* the part of C10 that the code keeps
C10_NoCycleParentFirst ==
  load.pc = "committed" =>
    /\ \A r \in Rows(db.doc_sections) :
         /\ r.level = 0 => r.parent_id = NullId
         /\ r \notin AncestorsWithin(db.doc_sections, {r}, BagCardinality(db.doc_sections))
    /\ ParentBeforeChild

\* the run ingests the HTML fixture alone
FixtureRun ==
  /\ load.pc = "committed"
  /\ registry = <<SrcA>>
  /\ files[IdA] = Artifact(parse_html(FixtureHtml))

RowsAtLevel(tbl, level) == { r \in Rows(tbl) : r.level = level }

\* the run repeats the ingestion of the fixture on the store the first one left
FixtureRerun ==
  /\ FixtureRun /\ IsReload /\ load.runs = 2
  /\ BagCardinality(load.pre.sources) = 1
  /\ BagCardinality(load.pre.doc_sections) = 4

\* C19: the HTML fixture with two h2 headings and two paragraphs of more than
\* 60 characters, ingested into an empty store, gives one source row, two
\* chunk rows with two content hashes and four tree nodes (one category, one
\* document, two sections); ingesting it again gives the same counts and ids.
C19_EndToEnd ==
  /\ (FixtureRun /\ load.pre = EmptyTables) =>
       /\ BagCardinality(db.sources) = 1
       /\ BagCardinality(db.source_chunks) = 2
       /\ Cardinality(ChunkHashes(db.source_chunks)) = 2
       /\ BagCardinality(db.doc_sections) = 4
       /\ Cardinality(RowsAtLevel(db.doc_sections, 0)) = 1
       /\ Cardinality(RowsAtLevel(db.doc_sections, 1)) = 1
       /\ Cardinality(RowsAtLevel(db.doc_sections, 2)) = 2
  /\ FixtureRerun =>
       /\ BagCardinality(db.sources) = 1
       /\ BagCardinality(db.source_chunks) = 2
       /\ BagCardinality(db.doc_sections) = 4
       /\ { r.id : r \in Rows(db.sources) } = { r.id : r \in Rows(load.pre.sources) }
       /\ { r.id : r \in Rows(db.source_chunks) } = { r.id : r \in Rows(load.pre.source_chunks) }
       /\ { r.id : r \in Rows(db.doc_sections) } = { r.id : r \in Rows(load.pre.doc_sections) }

\* the second ingestion of the fixture has committed
C19_Witness ==
  /\ FixtureRerun
  /\ BagCardinality(db.doc_sections) = 4

\* 'category-slug/document-slug'
DocPathOf(source) == CatAll(<<slugify(source.category), Slash, slugify(source.id)>>)

RowsAtPath(tbl, path) == { r \in Rows(tbl) : r.full_path = path }

\* the declared manual_download sources whose file is not there
Unsupplied ==
  { registry[i] : i \in { j \in 1..Len(registry) :
      registry[j].acquisition = "manual_download" /\ ~files[registry[j].id].present } }

\* the declared manual_download sources this run ingested
SuppliedManual ==
  { registry[i] : i \in { j \in 1..Len(registry) :
      registry[j].acquisition = "manual_download" /\ registry[j].id \in NormalizedIds } }

\* the one stored node at the document path of `source` is a placeholder
IsStoredPlaceholder(source) ==
  /\ Cardinality(RowsAtPath(db.doc_sections, DocPathOf(source))) = 1
  /\ \A r \in RowsAtPath(db.doc_sections, DocPathOf(source)) :
       /\ db.doc_sections[r] = 1
       /\ r.level = 1 /\ r.content_md = <<>> /\ r.word_count = 0 /\ r.is_placeholder

\* the one stored node at the document path of `source` is its real document node
IsStoredDocument(source) ==
  /\ Cardinality(RowsAtPath(db.doc_sections, DocPathOf(source))) = 1
  /\ \A r \in RowsAtPath(db.doc_sections, DocPathOf(source)) :
       r.level = 1 /\ ~r.is_placeholder /\ r.source_id = source_uuid(source)

GeneratedForIngested ==
  \A i \in 1..Len(GeneratedNodes) :
    GeneratedNodes[i].source_id # NullId => ~GeneratedNodes[i].is_placeholder

\* C15: after a committed load every declared manual_download source without
\* a file has exactly one level-1 placeholder node at
\* 'category-slug/document-slug' (empty content, word_count 0, is_placeholder),
\* parented to its stored category node; nodes of ingested sources are not
\* placeholders; once the file is there the load puts the real document node
\* at that path.
C15_Placeholders ==
  load.pc = "committed" =>
    /\ \A source \in Unsupplied :
         /\ IsStoredPlaceholder(source)
         /\ \A r \in RowsAtPath(db.doc_sections, DocPathOf(source)) :
              \E c \in RowsAtPath(db.doc_sections, slugify(source.category)) :
                c.level = 0 /\ c.id = r.parent_id
    /\ GeneratedForIngested
    /\ \A source \in SuppliedManual : IsStoredDocument(source)

\* the part of C15 that the code keeps: all but the stored parent
C15_PlaceholderShape ==
  load.pc = "committed" =>
    /\ \A source \in Unsupplied :
         /\ IsStoredPlaceholder(source)
         /\ \A r \in RowsAtPath(db.doc_sections, DocPathOf(source)) :
              r.parent_id = CategoryId(source.category)
    /\ GeneratedForIngested
    /\ \A source \in SuppliedManual : IsStoredDocument(source)

(***************************************************************************)
(* A caller of generate_doc_sections                                       *)
(***************************************************************************)
MaxDocLines == 3

\* n words separated by single spaces
Words(n) == [i \in 1..(2 * n - 1) |-> IF i % 2 = 1 THEN Run("w", 1) ELSE Run(" ", 1)]

LineHPageTight == Lit(<<"#", "p", "a", "g", "e", " ", "2">>)
LineWords3 == Words(3)
\* one word more than a minute of reading
LineWordsOver == Words(WordsPerMinute + 1)

\* lines as parse_html, _parse_akn and parse_pdf emit them: no white space at
\* either end
DocLinesPool ==
  { LineFence, LineBlank, LineHPage, LineHPageTight, LineHPlain, LineWords3, LineWordsOver }

GenDocs == SeqsUpTo(DocLinesPool, MaxDocLines)

InitSections ==
  /\ \E content \in GenDocs \cup FencedDocs :
       gen = [pc |-> "call", source |-> SrcB, content_md |-> content, nodes |-> <<>>]
  /\ registry = NoRegistry
  /\ files = NoWorkingDir
  /\ db = EmptyTables
  /\ load = IdleLoad(0, <<>>)
  /\ ck = ChunkerOff
  /\ vf = Off /\ ld = Off /\ fetch = Off /\ conc = Off
  /\ akn = Off /\ cli = Off /\ quota = Off

\* section_rows.extend(generate_doc_sections(source, content_md, cat_slug, cat_id))
GenerateSections ==
  /\ gen.pc = "call"
  /\ gen' = [gen EXCEPT
       !.pc = "returned",
       !.nodes = generate_doc_sections(gen.source, gen.content_md,
                   slugify(gen.source.category), CategoryId(gen.source.category))]
  /\ UNCHANGED <<registry, files, db, load, ck, vf, ld, fetch, conc, akn, cli, quota>>

NextSections == GenerateSections

SpecSections == InitSections /\ [][NextSections]_vars

(***************************************************************************)
(* Tree-builder claims (checked under SpecSections)                        *)
(***************************************************************************)
GenBody == BodyLines(gen.content_md, FALSE)

\* a heading line and its text, as a reader of the markdown takes them
IsHeading(line) == StartsWith(Strip(line), Hash)
HeadingOf(line) == Strip(LStripSet(Strip(line), {"#"}))
NotHeading(line) == ~IsHeading(line)

\* the body has a heading and every heading is 'Page N'
PageOnly ==
  /\ \E i \in 1..Len(GenBody) : IsHeading(GenBody[i])
  /\ \A i \in 1..Len(GenBody) : IsHeading(GenBody[i]) => PageMatch(HeadingOf(GenBody[i]))

CeilDiv(n, d) == (n + d - 1) \div d

\* C20: every generated node has word_count = the number of words of its own
\* content and reading_time_minutes = ceil(word_count / 200), 0 without words.
C20_ReadingMetrics ==
  gen.pc = "returned" =>
    \A i \in 1..Len(gen.nodes) :
      /\ gen.nodes[i].word_count = WordCount(gen.nodes[i].content_md)
      /\ gen.nodes[i].reading_time_minutes = CeilDiv(gen.nodes[i].word_count, WordsPerMinute)

\* C20 on the section nodes alone, whose word_count is that of their content
C20_SectionMinutes ==
  gen.pc = "returned" =>
    \A i \in 1..Len(gen.nodes) :
      gen.nodes[i].level = 2 =>
        /\ gen.nodes[i].word_count = WordCount(gen.nodes[i].content_md)
        /\ gen.nodes[i].reading_time_minutes = CeilDiv(gen.nodes[i].word_count, WordsPerMinute)

\* what does hold of the section nodes
C20_SectionWordCount ==
  gen.pc = "returned" =>
    \A i \in 1..Len(gen.nodes) :
      gen.nodes[i].level = 2 =>
        /\ gen.nodes[i].word_count = WordCount(gen.nodes[i].content_md)
        /\ gen.nodes[i].reading_time_minutes
             = IF gen.nodes[i].word_count = 0 THEN 0
               ELSE Max(1, PyRound(gen.nodes[i].word_count, WordsPerMinute))

(***************************************************************************)
(* A command reading the sources registry                                  *)
(***************************************************************************)
MaxItems == 2

\* a key the mapping does not have (item.get gives the default)
NoKey == <<Run("", 1)>>

StrHtml == Lit(<<"h", "t", "m", "l">>)
StrPdf == Lit(<<"p", "d", "f">>)
StrFetch == Lit(<<"f", "e", "t", "c", "h">>)
StrManual == Lit(<<"m", "a", "n", "u", "a", "l", "_", "d", "o", "w", "n", "l", "o", "a", "d">>)
StrNone == Lit(<<"N", "o", "n", "e">>)

MkItem(id, source_type, acquisition) ==
  [ kind |-> "dict", id |-> id, source_type |-> source_type, acquisition |-> acquisition ]

ItemGoodA == MkItem(Cat(Rep(" ", 1), IdA), StrHtml, StrFetch)
ItemGoodB == MkItem(IdB, Cat(Lit(<<"P", "d", "f">>), Rep(" ", 1)), StrManual)
ItemNoId == MkItem(NoKey, StrHtml, StrFetch)
ItemBlankId == MkItem(Rep(" ", 2), StrPdf, StrManual)
ItemNullId == MkItem(None, StrHtml, StrFetch)
ItemBadType == MkItem(IdA, Lit(<<"d", "o", "c", "x">>), StrFetch)
ItemNoAcquisition == MkItem(IdB, StrPdf, NoKey)
ItemBadAcquisition == MkItem(IdB, StrPdf, Lit(<<"f", "t", "p">>))
\* a list entry that is a plain string, not a mapping
ItemScalar == [ kind |-> "scalar", id |-> NoKey, source_type |-> NoKey, acquisition |-> NoKey ]

RegistryItems ==
  { ItemGoodA, ItemGoodB, ItemNoId, ItemBlankId, ItemNullId, ItemBadType,
    ItemNoAcquisition, ItemBadAcquisition, ItemScalar }

\* what yaml.safe_load finds: no file, a `sources` value that is no list, or a list
RegistryFiles ==
  { [kind |-> "absent", items |-> <<>>], [kind |-> "notlist", items |-> <<>>] }
    \cup { [kind |-> "list", items |-> items] : items \in SeqsUpTo(RegistryItems, MaxItems) }

Commands == {"fetch", "ingest", "verify", "seed"}

\* the steps a command runs on the list load_sources returned
StepsOf(command) ==
  CASE command = "fetch" -> <<"fetch">>
    [] command = "ingest" -> <<"normalize", "load">>
    [] command = "verify" -> <<"verify">>
    [] command = "seed" -> <<"fetch", "normalize", "load", "verify">>

\* item.get(key, "") and str()
GetStr(value) == IF value = NoKey THEN <<>> ELSE IF value = None THEN StrNone ELSE value

\* SourceRecord(...) as far as load_sources validates it
RecordOf(item) ==
  [ id |-> Strip(GetStr(item.id)),
    source_type |-> Lower(Strip(GetStr(item.source_type))),
    acquisition |-> Strip(GetStr(item.acquisition)) ]

ValidRecord(source) ==
  /\ source.id # <<>>
  /\ source.source_type \in {StrHtml, StrPdf}
  /\ source.acquisition \in {StrFetch, StrManual}

InitRegistry ==
  /\ \E command \in Commands, file \in RegistryFiles, database_url \in BOOLEAN :
       ld = [ pc |-> "main", command |-> command, file |-> file,
              database_url |-> database_url, dirs |-> FALSE, i |-> 1,
              sources |-> <<>>, returned |-> FALSE, todo |-> <<>>, ran |-> <<>> ]
  /\ registry = NoRegistry
  /\ files = NoWorkingDir
  /\ db = EmptyTables
  /\ load = IdleLoad(0, <<>>)
  /\ ck = ChunkerOff
  /\ gen = Off /\ vf = Off /\ fetch = Off /\ conc = Off
  /\ akn = Off /\ cli = Off /\ quota = Off

\* main: ensure_ingest_dirs, then the command up to the loop of load_sources
CommandBegin ==
  /\ ld.pc = "main"
  /\ ld' = [ld EXCEPT
       !.dirs = TRUE,
       !.pc = IF ld.command \in {"verify", "seed"} /\ ~ld.database_url THEN "raised"
              ELSE IF ld.file.kind # "list" THEN "raised"
              ELSE "loop"]
  /\ UNCHANGED <<registry, files, db, load, ck, gen, vf, fetch, conc, akn, cli, quota>>

\* one iteration of `for item in items`
LoadSourcesItem ==
  /\ ld.pc = "loop"
  /\ ld.i <= Len(ld.file.items)
  /\ LET item == ld.file.items[ld.i]
         source == RecordOf(item)
     IN  ld' = IF item.kind # "dict" THEN [ld EXCEPT !.i = @ + 1]
               ELSE IF ~ValidRecord(source) THEN [ld EXCEPT !.pc = "raised"]
               ELSE [ld EXCEPT !.i = @ + 1, !.sources = Append(@, source)]
  /\ UNCHANGED <<registry, files, db, load, ck, gen, vf, fetch, conc, akn, cli, quota>>

\* `return sources`
LoadSourcesReturn ==
  /\ ld.pc = "loop"
  /\ ld.i > Len(ld.file.items)
  /\ ld' = [ld EXCEPT !.pc = "steps", !.returned = TRUE, !.todo = StepsOf(ld.command)]
  /\ UNCHANGED <<registry, files, db, load, ck, gen, vf, fetch, conc, akn, cli, quota>>

\* the command goes on with the list it was given
CommandStep ==
  /\ ld.pc = "steps"
  /\ ld.todo # <<>>
  /\ ld' = [ld EXCEPT !.todo = Tail(@), !.ran = Append(@, Head(ld.todo))]
  /\ UNCHANGED <<registry, files, db, load, ck, gen, vf, fetch, conc, akn, cli, quota>>

NextRegistry == CommandBegin \/ LoadSourcesItem \/ LoadSourcesReturn \/ CommandStep

SpecRegistry == InitRegistry /\ [][NextRegistry]_vars

(***************************************************************************)
(* Registry claims (checked under SpecRegistry)                            *)
(***************************************************************************)
\* an entry the registry rules reject: not a mapping, no id or an empty one,
\* a source_type outside {html, pdf}, an acquisition outside {fetch,
\* manual_download}
EmptyOrMissing(value) == value = NoKey \/ Strip(value) = <<>>
MalformedItem(item) ==
  \/ item.kind # "dict"
  \/ EmptyOrMissing(item.id)
  \/ item.source_type = NoKey \/ Lower(Strip(item.source_type)) \notin {StrHtml, StrPdf}
  \/ item.acquisition = NoKey \/ Strip(item.acquisition) \notin {StrFetch, StrManual}
HasMalformed == \E i \in 1..Len(ld.file.items) : MalformedItem(ld.file.items[i])
HasMalformedMapping ==
  \E i \in 1..Len(ld.file.items) :
    ld.file.items[i].kind = "dict" /\ MalformedItem(ld.file.items[i])

\* C12: with a malformed entry in the list, load_sources returns no list and
\* no fetch, normalize, load or verify step runs.
C12_FailFast ==
  (ld.pc # "off" /\ HasMalformed) => (~ld.returned /\ ld.ran = <<>>)

\* C12 for the entries that are mappings: a malformed mapping stops the command
C12_FailFastMappings ==
  (ld.pc # "off" /\ HasMalformedMapping) => (~ld.returned /\ ld.ran = <<>>)

\* a returned list has one record per mapping of the file, in order
C12_ReturnedMappings ==
  ld.returned =>
    ld.sources = [i \in 1..Len(SelectSeq(ld.file.items, LAMBDA item : item.kind = "dict"))
                    |-> RecordOf(SelectSeq(ld.file.items, LAMBDA item : item.kind = "dict")[i])]

(***************************************************************************)
(* The callers of fetch_sources                                            *)
(***************************************************************************)
MaxFetch == 2

SrcBFetch == MkSource(IdB, Lit(<<"t">>), CatPAYE, "pdf", "fetch", Lit(<<"u">>), None)
SrcBNoUrl == MkSource(IdB, Lit(<<"t">>), CatPAYE, "pdf", "fetch", None, None)
FetchPool == {SrcA, SrcB, SrcBFetch, SrcBNoUrl}

\* file contents: a file that does not exist, downloaded bytes, a digest
Absent == <<>>
Bytes(b) == <<"bytes", b>>
sha256_bytes(content) == <<"sha256", content[2]>>

\* the urls of FetchPool have no path name ending in .pdf
fetch_output_filename(source) ==
  IF source.source_type = "html" THEN "source.html" ELSE "downloaded.pdf"

\* raw/<id>/ with its artifact and its sidecar _hash.txt
RawDir(output, bytes, hash) ==
  [name \in {"source.html", "downloaded.pdf", "_hash.txt"} |->
     IF name = output THEN bytes ELSE IF name = "_hash.txt" THEN hash ELSE Absent]
RawDirsOf(output) ==
  { RawDir(output, Absent, Absent),
    RawDir(output, Bytes("x"), sha256_bytes(Bytes("x"))),
    RawDir(output, Bytes("x"), sha256_bytes(Bytes("y"))),
    RawDir(output, Bytes("x"), Absent) }
RawTrees ==
  { (IdA :> da) @@ (IdB :> db_) : da \in RawDirsOf("source.html"), db_ \in RawDirsOf("downloaded.pdf") }

\* what requests.get and the two writes can do
Outcomes ==
  { [kind |-> "ok", content |-> Bytes("x")], [kind |-> "ok", content |-> Bytes("y")],
    [kind |-> "http_error", content |-> Absent], [kind |-> "timeout", content |-> Absent],
    [kind |-> "sidecar_error", content |-> Bytes("y")] }

FetchRow(source, status, content_hash) ==
  [ source_id |-> source.id, status |-> status, content_hash |-> content_hash ]

\* output.exists() and hash_file.exists() and current == stored
CacheHitUnhashed(dir, output) ==
  /\ dir[output] # Absent
  /\ dir["_hash.txt"] # Absent
CacheHit(dir, output) ==
  /\ dir[output] # Absent
  /\ dir["_hash.txt"] # Absent
  /\ sha256_bytes(dir[output]) = dir["_hash.txt"]

\* the number of requests.get calls of one try block
AttemptsRetried(outcome) == IF outcome.kind = "ok" THEN 1 ELSE 2
Attempts(outcome) == 1

\* try: requests.get ... except Exception
Download(source, dir, output, outcome) ==
  CASE outcome.kind = "ok" ->
         [ row |-> FetchRow(source, "FETCHED", sha256_bytes(outcome.content)),
           dir |-> [dir EXCEPT ![output] = outcome.content,
                               !["_hash.txt"] = sha256_bytes(outcome.content)],
           requests |-> Attempts(outcome) ]
    [] outcome.kind = "sidecar_error" ->
         [ row |-> FetchRow(source, "FAILED", Absent),
           dir |-> [dir EXCEPT ![output] = outcome.content],
           requests |-> Attempts(outcome) ]
    [] OTHER ->
         [ row |-> FetchRow(source, "FAILED", Absent), dir |-> dir,
           requests |-> Attempts(outcome) ]

\* the body of `for source in sources`
FetchOne(source, dir, only_missing, outcome) ==
  LET output == fetch_output_filename(source)
  IN  IF source.acquisition # "fetch"
        THEN [row |-> FetchRow(source, "PENDING", Absent), dir |-> dir, requests |-> 0]
      ELSE IF only_missing /\ dir[output] # Absent
        THEN [row |-> FetchRow(source, "SKIPPED", Absent), dir |-> dir, requests |-> 0]
      ELSE IF CacheHit(dir, output)
        THEN [row |-> FetchRow(source, "SKIPPED", sha256_bytes(dir[output])),
              dir |-> dir, requests |-> 0]
      ELSE IF source.url = None
        THEN [row |-> FetchRow(source, "FAILED", Absent), dir |-> dir, requests |-> 0]
      ELSE Download(source, dir, output, outcome)

\* find_raw_input of a fetch source
FindRawFetched(source, raw) == raw[source.id][fetch_output_filename(source)] # Absent
MissingFetchOf(source, raw) == source.acquisition = "fetch" /\ ~FindRawFetched(source, raw)

FetchCallers == {"command_fetch", "run_ingest_pipeline"}

FetchIdle(caller, sources, raw, call, prev) ==
  [ pc |-> "caller", caller |-> caller, registry |-> sources, raw |-> raw,
    only_missing |-> FALSE, sources |-> <<>>, i |-> 1, rows |-> <<>>,
    requests |-> <<>>, call |-> call, prev |-> prev ]

InitFetch ==
  /\ \E caller \in FetchCallers, sources \in SeqsUpTo(FetchPool, MaxFetch), raw \in RawTrees :
       fetch = FetchIdle(caller, sources, raw, 1, <<>>)
  /\ registry = NoRegistry
  /\ files = NoWorkingDir
  /\ db = EmptyTables
  /\ load = IdleLoad(0, <<>>)
  /\ ck = ChunkerOff
  /\ gen = Off /\ vf = Off /\ ld = Off /\ conc = Off
  /\ akn = Off /\ cli = Off /\ quota = Off

\* command_fetch: fetch_sources(sources, ingest_dir)
CallFromCommand ==
  /\ fetch.pc = "caller"
  /\ fetch.caller = "command_fetch"
  /\ fetch' = [fetch EXCEPT !.pc = "loop", !.only_missing = FALSE, !.sources = fetch.registry]
  /\ UNCHANGED <<registry, files, db, load, ck, gen, vf, ld, conc, akn, cli, quota>>

\* run_ingest_pipeline with fetch_if_missing: fetch_sources(missing_fetch, ..., only_missing=True)
CallFromPipeline ==
  /\ fetch.pc = "caller"
  /\ fetch.caller = "run_ingest_pipeline"
  /\ LET IsMissing(s) == MissingFetchOf(s, fetch.raw)
         missing_fetch == SelectSeq(fetch.registry, IsMissing)
     IN  fetch' = [fetch EXCEPT
           !.pc = IF missing_fetch = <<>> THEN "returned" ELSE "loop",
           !.only_missing = TRUE,
           !.sources = missing_fetch]
  /\ UNCHANGED <<registry, files, db, load, ck, gen, vf, ld, conc, akn, cli, quota>>

\* one iteration of `for source in sources`
FetchStep ==
  /\ fetch.pc = "loop"
  /\ fetch.i <= Len(fetch.sources)
  /\ \E outcome \in Outcomes :
       LET source == fetch.sources[fetch.i]
           done == FetchOne(source, fetch.raw[source.id], fetch.only_missing, outcome)
       IN  fetch' = [fetch EXCEPT
             !.raw = [@ EXCEPT ![source.id] = done.dir],
             !.rows = Append(@, done.row),
             !.requests = Append(@, done.requests),
             !.i = @ + 1]
  /\ UNCHANGED <<registry, files, db, load, ck, gen, vf, ld, conc, akn, cli, quota>>

\* `return rows`
FetchReturn ==
  /\ fetch.pc = "loop"
  /\ fetch.i > Len(fetch.sources)
  /\ fetch' = [fetch EXCEPT !.pc = "returned"]
  /\ UNCHANGED <<registry, files, db, load, ck, gen, vf, ld, conc, akn, cli, quota>>

\* the same command is run once more on the files the first run left
FetchAgain ==
  /\ fetch.pc = "returned"
  /\ fetch.call = 1
  /\ fetch' = FetchIdle(fetch.caller, fetch.registry, fetch.raw, 2, fetch.rows)
  /\ UNCHANGED <<registry, files, db, load, ck, gen, vf, ld, conc, akn, cli, quota>>

NextFetch == CallFromCommand \/ CallFromPipeline \/ FetchStep \/ FetchReturn \/ FetchAgain

SpecFetch == InitFetch /\ [][NextFetch]_vars

(***************************************************************************)
(* Fetch claims (checked under SpecFetch)                                  *)
(***************************************************************************)
\* the claim's cache test: artifact and sidecar exist, and the sidecar holds
\* the SHA-256 of the artifact's bytes
DigestMatches(dir, output) ==
  /\ dir[output] # Absent
  /\ dir["_hash.txt"] = sha256_bytes(dir[output])

FetchStepTaken == fetch.pc = "loop" /\ fetch'.pc = "loop" /\ fetch'.i = fetch.i + 1
StepSource == fetch.sources[fetch.i]
StepOutput == fetch_output_filename(StepSource)
DirBefore == fetch.raw[StepSource.id]
DirAfter == fetch'.raw[StepSource.id]
StepRow == fetch'.rows[fetch.i]
StepRequests == fetch'.requests[fetch.i]

\* FETCHED: one request, and the artifact and a sidecar equal to its SHA-256
\* are on disk
FetchedAndWritten ==
  /\ StepRow.status = "FETCHED"
  /\ StepRequests = 1
  /\ DigestMatches(DirAfter, StepOutput)
  /\ StepRow.content_hash = sha256_bytes(DirAfter[StepOutput])

SkippedNoRequest ==
  /\ StepRow.status = "SKIPPED"
  /\ StepRequests = 0
  /\ DirAfter = DirBefore

\* the second run of the fetch command, on a source the first run FETCHED
RerunOfFetched ==
  /\ fetch.call = 2
  /\ fetch.caller = "command_fetch"
  /\ fetch.prev[fetch.i].status = "FETCHED"

\* C13: a fetch-mode source is SKIPPED without a request when artifact and
\* sidecar exist and the digest matches; otherwise it is downloaded and
\* FETCHED only with both files written, or FAILED; a rerun right after
\* FETCHED is SKIPPED.
C13_FetchCache ==
  [][ (FetchStepTaken /\ StepSource.acquisition = "fetch") =>
        /\ DigestMatches(DirBefore, StepOutput) => SkippedNoRequest
        /\ ~DigestMatches(DirBefore, StepOutput) => (FetchedAndWritten \/ StepRow.status = "FAILED")
        /\ RerunOfFetched => SkippedNoRequest ]_vars

\* C13 as the code has it: with only_missing set an artifact that exists is
\* SKIPPED whatever its sidecar says
SkipsWithout(only_missing, dir, output) ==
  DigestMatches(dir, output) \/ (only_missing /\ dir[output] # Absent)

C13_FetchCacheModes ==
  [][ (FetchStepTaken /\ StepSource.acquisition = "fetch") =>
        /\ SkipsWithout(fetch.only_missing, DirBefore, StepOutput) => SkippedNoRequest
        /\ ~SkipsWithout(fetch.only_missing, DirBefore, StepOutput)
             => (FetchedAndWritten \/ StepRow.status = "FAILED")
        /\ RerunOfFetched => SkippedNoRequest ]_vars

\* with only_missing set: the sidecar write of a source failed, and the
\* source's second entry is SKIPPED on the artifact alone; and a rerun of the
\* fetch command has SKIPPED what it FETCHED
C13_WitnessOnlyMissing ==
  /\ fetch.pc = "returned" /\ fetch.only_missing
  /\ Len(fetch.rows) = 2
  /\ fetch.rows[1].status = "FAILED" /\ fetch.rows[2].status = "SKIPPED"
  /\ ~DigestMatches(fetch.raw[fetch.sources[2].id], fetch_output_filename(fetch.sources[2]))

C13_WitnessRerun ==
  /\ fetch.pc = "returned" /\ fetch.call = 2 /\ fetch.caller = "command_fetch"
  /\ Len(fetch.rows) = 2
  /\ fetch.prev[1].status = "FETCHED" /\ fetch.rows[1].status = "SKIPPED"
  /\ fetch.prev[2].status = "FAILED" /\ fetch.rows[2].status = "FETCHED"

\* C14: one status row per source, in registry order, each FETCHED, SKIPPED,
\* FAILED or PENDING; a failure does not stop the loop; at most one request
\* per source.
C14_FetchIsolation ==
  fetch.pc \in {"loop", "returned"} =>
    /\ Len(fetch.rows) = fetch.i - 1
    /\ Len(fetch.requests) = Len(fetch.rows)
    /\ fetch.pc = "returned" => Len(fetch.rows) = Len(fetch.sources)
    /\ \A k \in 1..Len(fetch.rows) :
         /\ fetch.rows[k].source_id = fetch.sources[k].id
         /\ fetch.rows[k].status \in {"FETCHED", "SKIPPED", "FAILED", "PENDING"}
         /\ fetch.requests[k] <= 1

\* a timeout for the first source, the second one downloaded all the same
C14_Witness ==
  /\ fetch.pc = "returned" /\ fetch.call = 1
  /\ Len(fetch.rows) = 2
  /\ fetch.rows[1].status = "FAILED" /\ fetch.requests[1] = 1
  /\ fetch.rows[2].status = "FETCHED" /\ fetch.requests[2] = 1
  /\ fetch.sources[1].id # fetch.sources[2].id

(***************************************************************************)
(* The verify command, run between ingest commands                         *)
(***************************************************************************)
\* the registries a verify command may find
VerifyRegistries == { <<>>, <<SrcA>>, <<SrcB>>, <<SrcA, SrcB>>, <<SrcBFetch>> }

\* the working directories it may find: a raw input is there or not
VerifyDirs(r) ==
  { f \in WorkingDirs(r) : \A id \in SourceIds : f[id] \in {NoFile, Unparseable} }

\* the pending *.sql migrations change the schema and schema_migrations and
\* leave the rows of the data tables alone
run_migrations(store) == store

\* the four SELECT statements of verify_seed
VerifyStorePurged(store) == [store EXCEPT !.source_chunks = EmptyBag]
VerifyStore(store) == store

CountRows(tbl) == BagCardinality(tbl)

\* SELECT COUNT(*) FROM source_chunks c JOIN sources s ON s.id = c.source_id
\* WHERE s.acquisition = 'fetch'
FetchChunksCount(store) ==
  LET joined == { pair \in Rows(store.source_chunks) \X Rows(store.sources) :
                    pair[2].id = pair[1].source_id /\ pair[2].acquisition = "fetch" }
      Copies(pair) == CopiesIn(pair[1], store.source_chunks) * CopiesIn(pair[2], store.sources)
      Sum[S \in SUBSET joined] ==
        IF S = {} THEN 0 ELSE LET p == CHOOSE q \in S : TRUE IN Copies(p) + Sum[S \ {p}]
  IN  Sum[joined]

\* the exit code of verify_seed
VerifyResult(store, sources, ingest_dir, require_manual_sources) ==
  LET chunks_count == CountRows(store.source_chunks)
      fetch_chunks_count == FetchChunksCount(store)
      IsFetch(s) == s.acquisition = "fetch"
      IsManual(s) == s.acquisition = "manual_download"
      HasRaw(s) == HasRawInput(s, ingest_dir)
      NoRaw(s) == ~HasRawInput(s, ingest_dir)
      fetch_sources_list == SelectSeq(sources, IsFetch)
      manual_sources == SelectSeq(sources, IsManual)
      fetch_raw_present == Len(SelectSeq(fetch_sources_list, HasRaw))
      missing_manual == SelectSeq(manual_sources, NoRaw)
  IN  IF chunks_count = 0 THEN 1
      ELSE IF fetch_sources_list # <<>> /\ fetch_raw_present = 0 /\ fetch_chunks_count = 0 THEN 1
      ELSE IF require_manual_sources /\ missing_manual # <<>> THEN 1
      ELSE 0

\* no command is running
Quiet == vf.pc = "off" /\ load.pc = "idle"

\* main and command_verify up to the call of verify_seed
VerifyBegin ==
  /\ Quiet
  /\ \E r \in VerifyRegistries, require_manual_sources \in BOOLEAN :
       \E f \in VerifyDirs(r) :
         /\ registry' = r
         /\ files' = f
         /\ vf' = [ pc |-> "verify_seed", sources |-> r,
                    require_manual_sources |-> require_manual_sources,
                    before |-> [db |-> db, files |-> f], result |-> 0 ]
  /\ UNCHANGED <<db, load, ck, gen, ld, fetch, conc, akn, cli, quota>>

\* verify_seed
VerifySeed ==
  /\ vf.pc = "verify_seed"
  /\ db' = VerifyStore(run_migrations(db))
  /\ vf' = [vf EXCEPT
       !.pc = "returned",
       !.result = VerifyResult(db', vf.sources, files, vf.require_manual_sources)]
  /\ UNCHANGED <<registry, files, load, ck, gen, ld, fetch, conc, akn, cli, quota>>

\* the command ends with the exit code
VerifyExit ==
  /\ vf.pc = "returned"
  /\ vf' = Off
  /\ registry' = NoRegistry
  /\ files' = NoWorkingDir
  /\ UNCHANGED <<db, load, ck, gen, ld, fetch, conc, akn, cli, quota>>

\* ingest commands, with verify commands run between them
IngestStep == vf.pc = "off" /\ Next

NextVerify == IngestStep \/ VerifyBegin \/ VerifySeed \/ VerifyExit

SpecVerify == Init /\ [][NextVerify]_vars

(***************************************************************************)
(* Verifier claims (checked under SpecVerify)                              *)
(***************************************************************************)
DeclaredFetch == { i \in 1..Len(vf.sources) : vf.sources[i].acquisition = "fetch" }
DeclaredManual == { i \in 1..Len(vf.sources) : vf.sources[i].acquisition = "manual_download" }
ChunksOfSource(source) ==
  { c \in Rows(db.source_chunks) : c.source_id = source_uuid(source) }

\* (a) fetch-mode sources are declared and none of them has a raw artifact or
\* any chunk
FetchLooksBroken ==
  /\ DeclaredFetch # {}
  /\ \A i \in DeclaredFetch :
       /\ ~files[vf.sources[i].id].present
       /\ ChunksOfSource(vf.sources[i]) = {}

\* (b) manual sources are required and one has no file
ManualMissing ==
  /\ vf.require_manual_sources
  /\ \E i \in DeclaredManual : ~files[vf.sources[i].id].present

\* C16: verify_seed returns 1 on a store without chunks; on a store with
\* chunks it returns 1 exactly if (a) or (b), else 0.
C16_VerifierOutcome ==
  vf.pc = "returned" =>
    vf.result = IF Rows(db.source_chunks) = {} THEN 1
                ELSE IF FetchLooksBroken \/ ManualMissing THEN 1 ELSE 0

\* every stored source that has chunks is declared, with the acquisition it
\* was stored with
StoreMatchesRegistry ==
  \A s \in Rows(db.sources) :
    (\E c \in Rows(db.source_chunks) : c.source_id = s.id) =>
      \E i \in 1..Len(vf.sources) :
        source_uuid(vf.sources[i]) = s.id /\ vf.sources[i].acquisition = s.acquisition

\* C16 when the store was loaded from the registry that is verified
C16_OutcomeOnOwnStore ==
  (vf.pc = "returned" /\ StoreMatchesRegistry) =>
    vf.result = IF Rows(db.source_chunks) = {} THEN 1
                ELSE IF FetchLooksBroken \/ ManualMissing THEN 1 ELSE 0

C17_WitnessPass ==
  /\ vf.pc = "returned" /\ vf.result = 0
  /\ Rows(db.source_chunks) # {} /\ Rows(db.doc_sections) # {}
  /\ \E id \in SourceIds : files[id].present

(***************************************************************************)
(* Two sessions loading into one store: the transactions of                *)
(* load_to_postgres under READ COMMITTED, row locks held until commit      *)
(***************************************************************************)
MaxLoads == 3

Sessions == {1, 2}
Other(t) == 3 - t

ConcRegistries == { <<SrcA>>, <<SrcB>>, <<SrcA, SrcB>> }
\* every declared source has its raw input
ConcFiles == (IdA :> Artifact(BodyTwo)) @@ (IdB :> Artifact(BodyPages))

TxIdle ==
  [ pc |-> "idle", rows |-> NoRows, k |-> 1, written |-> {}, deleted |-> {},
    locks |-> {}, overlapped |-> FALSE, after |-> {} ]

TxInFlight(tx) == tx.pc \in {"upsert_sources", "upsert_sections", "commit"}

TxNodes(tx) == tx.rows.category_nodes \o tx.rows.section_rows
PathsOfRows(rows) == { rows[i].full_path : i \in 1..Len(rows) }
WrittenPaths(tx) == { r.full_path : r \in tx.written }

\* the keys the source and chunk upserts lock
RowKeys(rows) ==
  { <<"sources", rows.source_rows[i].id>> : i \in 1..Len(rows.source_rows) }
    \cup { <<"source_chunks", rows.chunk_rows[i].chunk_hash>> : i \in 1..Len(rows.chunk_rows) }
PathKeys(paths) == { <<"doc_sections", p>> : p \in paths }

\* what a statement of the transaction sees of doc_sections: the committed
\* rows, with its own writes and deletes in place of the rows they touched
TxView(store, tx) ==
  SetToBag({ r \in Rows(store) : r.full_path \notin (WrittenPaths(tx) \cup tx.deleted) }
             \cup tx.written)

\* the paths `DELETE FROM doc_sections WHERE full_path != ALL(%s)` removes
PrunedNone(view, upserted_paths) == {}
PrunedPaths(view, upserted_paths) == Paths(view) \ Paths(DeleteStale(view, upserted_paths))

InitConc ==
  /\ conc = [ store |-> EmptyBag, tx |-> [t \in Sessions |-> TxIdle], loads |-> 0 ]
  /\ registry = NoRegistry
  /\ files = NoWorkingDir
  /\ db = EmptyTables
  /\ load = IdleLoad(0, <<>>)
  /\ ck = ChunkerOff
  /\ gen = Off /\ vf = Off /\ ld = Off /\ fetch = Off
  /\ akn = Off /\ cli = Off /\ quota = Off

\* psycopg.connect: a session starts a load
ConcBegin(t) ==
  /\ conc.tx[t].pc = "idle"
  /\ conc.loads < MaxLoads
  /\ \E r \in ConcRegistries :
       LET overlap == TxInFlight(conc.tx[Other(t)])
       IN  conc' = [conc EXCEPT
             !.loads = @ + 1,
             !.tx[t] = [TxIdle EXCEPT
                !.pc = "upsert_sources",
                !.rows = LoadRows(normalize_sources(r, ConcFiles).normalized, r),
                !.overlapped = overlap],
             !.tx[Other(t)].overlapped = @ \/ overlap]
  /\ UNCHANGED <<registry, files, db, load, ck, gen, vf, ld, fetch, akn, cli, quota>>

\* the source and chunk upserts; a row the other session has written and not
\* committed makes the statement wait
ConcUpsertSources(t) ==
  /\ conc.tx[t].pc = "upsert_sources"
  /\ RowKeys(conc.tx[t].rows) \cap conc.tx[Other(t)].locks = {}
  /\ conc' = [conc EXCEPT
       !.tx[t].pc = "upsert_sections",
       !.tx[t].locks = @ \cup RowKeys(conc.tx[t].rows)]
  /\ UNCHANGED <<registry, files, db, load, ck, gen, vf, ld, fetch, akn, cli, quota>>

\* one _SECTION_UPSERT of `for node in category_nodes` / `for sec in section_rows`
ConcUpsertSection(t) ==
  /\ conc.tx[t].pc = "upsert_sections"
  /\ conc.tx[t].k <= Len(TxNodes(conc.tx[t]))
  /\ LET tx == conc.tx[t]
         row == TxNodes(tx)[tx.k]
         view == UpsertSection(TxView(conc.store, tx), row)
         stored == { r \in Rows(view) : r.full_path = row.full_path }
     IN  /\ <<"doc_sections", row.full_path>> \notin conc.tx[Other(t)].locks
         /\ conc' = [conc EXCEPT
              !.tx[t].k = @ + 1,
              !.tx[t].written = { r \in @ : r.full_path # row.full_path } \cup stored,
              !.tx[t].locks = @ \cup PathKeys({row.full_path})]
  /\ UNCHANGED <<registry, files, db, load, ck, gen, vf, ld, fetch, akn, cli, quota>>

\* `if upserted_paths: DELETE ...`; it sees what is committed when it runs, and
\* waits for a row the other session has written
ConcDeleteStale(t) ==
  /\ conc.tx[t].pc = "upsert_sections"
  /\ conc.tx[t].k > Len(TxNodes(conc.tx[t]))
  /\ LET tx == conc.tx[t]
         upserted_paths == UpsertedPaths(tx.rows)
         pruned == IF upserted_paths # <<>>
                   THEN PrunedPaths(TxView(conc.store, tx), upserted_paths) ELSE {}
     IN  /\ PathKeys(pruned) \cap conc.tx[Other(t)].locks = {}
         /\ conc' = [conc EXCEPT
              !.tx[t].pc = "commit",
              !.tx[t].deleted = @ \cup pruned,
              !.tx[t].written = { r \in @ : r.full_path \notin pruned },
              !.tx[t].locks = @ \cup PathKeys(pruned)]
  /\ UNCHANGED <<registry, files, db, load, ck, gen, vf, ld, fetch, akn, cli, quota>>

\* conn.commit()
ConcCommit(t) ==
  /\ conc.tx[t].pc = "commit"
  /\ LET store == TxView(conc.store, conc.tx[t])
     IN  conc' = [conc EXCEPT
           !.store = store,
           !.tx[t].pc = "committed",
           !.tx[t].locks = {},
           !.tx[t].written = {},
           !.tx[t].deleted = {},
           !.tx[t].after = Paths(store)]
  /\ UNCHANGED <<registry, files, db, load, ck, gen, vf, ld, fetch, akn, cli, quota>>

\* a statement raises (a deadlock is resolved this way): rollback
ConcFail(t) ==
  /\ TxInFlight(conc.tx[t])
  /\ conc' = [conc EXCEPT
       !.tx[t] = [@ EXCEPT !.pc = "rolled_back", !.locks = {}, !.written = {}, !.deleted = {}]]
  /\ UNCHANGED <<registry, files, db, load, ck, gen, vf, ld, fetch, akn, cli, quota>>

\* the command of the session ends
ConcReturn(t) ==
  /\ conc.tx[t].pc \in {"committed", "rolled_back"}
  /\ conc' = [conc EXCEPT !.tx[t] = TxIdle]
  /\ UNCHANGED <<registry, files, db, load, ck, gen, vf, ld, fetch, akn, cli, quota>>

NextConc ==
  \E t \in Sessions :
    \/ ConcBegin(t)
    \/ ConcUpsertSources(t)
    \/ ConcUpsertSection(t)
    \/ ConcDeleteStale(t)
    \/ ConcCommit(t)
    \/ ConcFail(t)
    \/ ConcReturn(t)

SpecConc == InitConc /\ [][NextConc]_vars

(***************************************************************************)
(* Concurrency claims (checked under SpecConc)                             *)
(***************************************************************************)
RunPaths(t) == PathsOfRows(TxNodes(conc.tx[t]))

\* C11: a load whose transaction overlapped no other leaves, at its commit,
\* exactly its own node set in the tree; two overlapping loads can both
\* commit and leave a tree that is neither run's node set (C11_Witness).
C11_SerializedPrune ==
  \A t \in Sessions :
    (conc.tx[t].pc = "committed" /\ ~conc.tx[t].overlapped) =>
      conc.tx[t].after = RunPaths(t)

\* both overlapping loads have committed and the tree is neither run's set
C11_Witness ==
  /\ \A t \in Sessions : conc.tx[t].pc = "committed" /\ conc.tx[t].overlapped
  /\ \A t \in Sessions : Paths(conc.store) # RunPaths(t)

\* a serialized load that pruned the nodes of the load before it
C11_WitnessSerialized ==
  \E t \in Sessions :
    /\ conc.tx[t].pc = "committed" /\ ~conc.tx[t].overlapped
    /\ conc.loads = 2
    /\ conc.tx[t].after = RunPaths(t)
    /\ conc.tx[Other(t)].pc = "idle"
    /\ conc.tx[t].rows.source_rows # <<>>
    /\ Len(TxNodes(conc.tx[t])) = 2

(***************************************************************************)
(* Chunker claims on headings (checked under SpecChunk)                    *)
(***************************************************************************)
IsFence(line) == Strip(line) = FrontmatterFence
MinOf(S) == CHOOSE x \in S : \A y \in S : x <= y
MaxOf(S) == CHOOSE x \in S : \A y \in S : x >= y

\* the last line of the leading metadata header, 0 without one
HeaderEnd(content) ==
  IF content = <<>> \/ ~IsFence(content[1]) THEN 0
  ELSE LET closing == { i \in 2..Len(content) : IsFence(content[i]) }
       IN IF closing = {} THEN Len(content) ELSE MinOf(closing)

\* line i is a heading of the document's body
BodyHeadingAt(content, i) ==
  /\ i > HeaderEnd(content)
  /\ StartsWith(Strip(content[i]), Hash)

\* line i is a heading the loop reaches: an even number of '---' lines precede it
SeenHeadingAt(content, i) ==
  /\ StartsWith(Strip(content[i]), Hash)
  /\ Cardinality({ j \in 1..(i - 1) : IsFence(content[j]) }) % 2 = 0

SameCallStep == ck.pc = "loop" /\ ck'.call = ck.call
ChunksAppended ==
  \/ ck'.st.chunks = ck.st.chunks
  \/ /\ Len(ck'.st.chunks) = Len(ck.st.chunks) + 1
     /\ SubSeq(ck'.st.chunks, 1, Len(ck.st.chunks)) = ck.st.chunks
BufferBelowMax == ck.pc # "off" => SumLen(ck.st.buffer) < DefaultMaxChars

FlushedAtBodyHeadings ==
  (SameCallStep /\ ck.i <= Len(ck.content) /\ BodyHeadingAt(ck.content, ck.i))
    => ck'.st.buffer = <<>>
FlushedAtSeenHeadings ==
  (SameCallStep /\ ck.i <= Len(ck.content) /\ SeenHeadingAt(ck.content, ck.i))
    => ck'.st.buffer = <<>>

\* C23: the buffer is empty after every heading line of the body, its summed
\* length is below max_chars after every line, and chunks are only ever
\* appended, in the order of the lines.
C23_FlushRule ==
  /\ []BufferBelowMax
  /\ [][FlushedAtBodyHeadings]_vars
  /\ [][SameCallStep => ChunksAppended]_vars

\* C23 for the heading lines that no '---' line of the body hides
C23_FlushRuleOutsideFences ==
  /\ []BufferBelowMax
  /\ [][FlushedAtSeenHeadings]_vars
  /\ [][SameCallStep => ChunksAppended]_vars

\* the text of the last heading among lines 1..n that matches, None without one
LastRefHeading(content, n, body_wide) ==
  LET hits == { i \in 1..n :
                  /\ IF body_wide THEN BodyHeadingAt(content, i) ELSE SeenHeadingAt(content, i)
                  /\ RefMatch(HeadingText(Strip(content[i]))) }
  IN IF hits = {} THEN None ELSE HeadingText(Strip(content[MaxOf(hits)]))
LastPageHeading(content, n, body_wide) ==
  LET hits == { i \in 1..n :
                  /\ IF body_wide THEN BodyHeadingAt(content, i) ELSE SeenHeadingAt(content, i)
                  /\ PageMatch(HeadingText(Strip(content[i]))) }
  IN IF hits = {} THEN None ELSE PageGroup(HeadingText(Strip(content[MaxOf(hits)])))

NewChunk == ck'.st.chunks[Len(ck'.st.chunks)]
ChunkEmitted == SameCallStep /\ Len(ck'.st.chunks) > Len(ck.st.chunks)

\* C25: a chunk's section_ref is the text of the last heading before it that
\* begins with section, part, article or schedule, and its page_ref the
\* number of the last 'Page N' heading before it; null without such a heading.
C25_RefTracking ==
  [][ ChunkEmitted =>
        /\ NewChunk.section_ref = LastRefHeading(ck.content, ck.i - 1, TRUE)
        /\ NewChunk.page_ref = LastPageHeading(ck.content, ck.i - 1, TRUE) ]_vars

\* C25 for the heading lines that no '---' line of the body hides
C25_RefTrackingOutsideFences ==
  [][ ChunkEmitted =>
        /\ NewChunk.section_ref = LastRefHeading(ck.content, ck.i - 1, FALSE)
        /\ NewChunk.page_ref = LastPageHeading(ck.content, ck.i - 1, FALSE) ]_vars

(***************************************************************************)
(* Front matter claims (checked under SpecChunk and SpecSections)          *)
(***************************************************************************)
NonBlank(line) == Strip(line) # <<>>
AfterHeader(content) == SubSeq(content, HeaderEnd(content) + 1, Len(content))

\* the loop took line ck.i as a heading, or appended it to the buffer (which
\* a flush may have emptied in the same iteration)
TreatedAsHeading ==
  /\ StartsWith(Strip(ck.content[ck.i]), Hash)
  /\ ck'.st.heading_title = HeadingText(Strip(ck.content[ck.i]))
AppendedToBuffer ==
  \/ ck'.st.buffer = Append(ck.st.buffer, Strip(ck.content[ck.i]))
  \/ /\ ck'.st.buffer = <<>>
     /\ \/ Len(ck'.st.chunks) = Len(ck.st.chunks) + 1
        \/ ck'.st.discarded = ck.st.discarded + 1

\* C27: chunk_markdown drops only the lines of the leading metadata header;
\* every non-blank line after it is taken as a heading or appended to the
\* buffer, a '---' line of the body included.
C27_OnlyHeaderDropped ==
  [][ ( /\ SameCallStep /\ ck.i <= Len(ck.content)
        /\ ck.i > HeaderEnd(ck.content)
        /\ NonBlank(ck.content[ck.i]) )
      => (TreatedAsHeading \/ AppendedToBuffer) ]_vars

\* C27 for bodies without a '---' line
NoFenceAfterHeader(content) ==
  \A i \in (HeaderEnd(content) + 1)..Len(content) : ~IsFence(content[i])
C27_HeaderDroppedFenceFree ==
  [][ ( /\ SameCallStep /\ ck.i <= Len(ck.content)
        /\ NoFenceAfterHeader(ck.content)
        /\ ck.i > HeaderEnd(ck.content)
        /\ NonBlank(ck.content[ck.i]) )
      => (TreatedAsHeading \/ AppendedToBuffer) ]_vars

\* C27 for generate_doc_sections: the body lines it walks are the non-blank
\* lines after the header
C27_SectionsBody ==
  gen.pc = "returned" =>
    SelectSeq(GenBody, NonBlank) = SelectSeq(AfterHeader(gen.content_md), NonBlank)
C27_SectionsBodyFenceFree ==
  (gen.pc = "returned" /\ NoFenceAfterHeader(gen.content_md)) =>
    SelectSeq(GenBody, NonBlank) = SelectSeq(AfterHeader(gen.content_md), NonBlank)

(***************************************************************************)
(* Tree levels of the generated node set                                   *)
(***************************************************************************)
DeclaredCategories == { registry[i].category : i \in 1..Len(registry) }

\* the number of distinct categories declared before the first source of `cat`
FirstSeenIndex(cat) ==
  LET first == MinOf({ i \in 1..Len(registry) : registry[i].category = cat })
  IN Cardinality({ registry[i].category : i \in 1..(first - 1) })

NodesAt(level) == { i \in 1..Len(GeneratedNodes) : GeneratedNodes[i].level = level }

CategoryNodesOf(cat) == { i \in NodesAt(0) : GeneratedNodes[i].title = cat }

DocumentNodesOf(source) == { i \in NodesAt(1) : GeneratedNodes[i].id = DocId(source) }

NodesGenerated == load.pc \in InFlight \cup {"committed", "rolled_back"}

OneCategoryNodeEach ==
  /\ \A cat \in DeclaredCategories :
       /\ Cardinality(CategoryNodesOf(cat)) = 1
       /\ \A i \in CategoryNodesOf(cat) :
            /\ GeneratedNodes[i].sort_order = FirstSeenIndex(cat)
            /\ GeneratedNodes[i].parent_id = NullId
  /\ \A i \in NodesAt(0) : GeneratedNodes[i].title \in DeclaredCategories

OneDocumentNode(source) ==
  /\ Cardinality(DocumentNodesOf(source)) = 1
  /\ \A i \in DocumentNodesOf(source) :
       \E j \in CategoryNodesOf(source.category) :
         GeneratedNodes[i].parent_id = GeneratedNodes[j].id

\* C24: the node set generated by a load has exactly one level-0 node per
\* distinct declared category, with sort_order its first-seen index in the
\* registry and no parent, and exactly one level-1 document node per declared
\* source, parented to the node of that source's category.
C24_TreeLevels ==
  NodesGenerated =>
    /\ OneCategoryNodeEach
    /\ \A k \in 1..Len(registry) : OneDocumentNode(registry[k])
    /\ \A i \in NodesAt(1) : \E k \in 1..Len(registry) : i \in DocumentNodesOf(registry[k])

\* the declared sources the load has a document or a placeholder for: the
\* ingested ones and the manual_download ones
HasDocumentNode(source) ==
  source.id \in NormalizedIds \/ source.acquisition = "manual_download"

\* the same levels, a document node being asked only of the ingested and the
\* manual_download sources; a fetch source that was not ingested has none
C24_TreeLevelsOfAvailable ==
  NodesGenerated =>
    /\ OneCategoryNodeEach
    /\ \A k \in 1..Len(registry) :
         IF HasDocumentNode(registry[k]) THEN OneDocumentNode(registry[k])
         ELSE DocumentNodesOf(registry[k]) = {}
    /\ \A i \in NodesAt(1) : \E k \in 1..Len(registry) : i \in DocumentNodesOf(registry[k])

\* a load of two categories where the first declared source, a fetch source,
\* was not ingested
C24_FetchSourceNotIngested ==
  /\ NodesGenerated
  /\ Len(registry) = 2
  /\ registry[1].acquisition = "fetch" /\ registry[1].id \notin NormalizedIds
  /\ Cardinality(NodesAt(0)) = 2

(***************************************************************************)
(* A run that normalizes nothing                                           *)
(***************************************************************************)
\* the run is under way and none of its sources has the status PARSED
NothingParsed(l) ==
  /\ l.pc # "idle"
  /\ \A i \in 1..Len(l.statuses) : l.statuses[i].status # "PARSED"

\* C28: when no source normalizes successfully in a run, the run performs no
\* store write: it opens no transaction, and every step of it, its end
\* included, leaves the sources, chunks and tree of earlier runs as they were.
C28_EmptyRunNoWrite ==
  /\ [](NothingParsed(load) => load.pc = "skipped")
  /\ [][NothingParsed(load) \/ NothingParsed(load') => db' = db]_vars

\* an empty run over a registry with a manual_download source whose file is
\* missing, on a store whose tree has another document: a load would upsert a
\* placeholder and prune the stored document
C28_Witness ==
  /\ load.pc = "skipped"
  /\ Unsupplied # {}
  /\ \E r \in Rows(db.doc_sections) :
       r.level = 1 /\ \A k \in 1..Len(registry) : r.full_path # DocPathOf(registry[k])
  /\ db.sources # EmptyBag
  /\ db.source_chunks # EmptyBag

(***************************************************************************)
(* _parse_akn: the walk over an Akoma Ntoso tree                           *)
(*                                                                         *)
(* A tree is the sequence of its nodes in document order, each with its    *)
(* depth below the container: container.descendants is that sequence.  An  *)
(* element has one class (its kind); a string node has the kind "#text"    *)
(* and its text already stripped.  Each line remembers the node that       *)
(* appended it.                                                            *)
(***************************************************************************)
MaxAknItems == 2

Txt(t) == << [kind |-> "#text", depth |-> 0, text |-> t] >>
El(kind, kids) ==
  << [kind |-> kind, depth |-> 0, text |-> <<>>] >>
    \o [i \in 1..Len(kids) |-> [kids[i] EXCEPT !.depth = @ + 1]]

ClauseKinds == {"akn-paragraph", "akn-subsection"}
ConsumingKinds == ClauseKinds \cup {"akn-intro", "akn-longTitle"}

\* a numbered clause: its label, its body element with `inner` inside it, and
\* `below` as further children of the clause
Clause(kind, label, body_kind, body, inner, below) ==
  El(kind, El("akn-num", Txt(label)) \o El(body_kind, El("akn-p", Txt(body)) \o inner) \o below)

Label1 == Lit(<<"(", "1", ")">>)
LabelA == Lit(<<"(", "a", ")">>)
LabelI == Lit(<<"(", "i", ")">>)
TextX == Lit(<<"x">>)
TextY == Lit(<<"y">>)

ParagraphA == Clause("akn-paragraph", LabelA, "akn-content", TextX, <<>>, <<>>)
ParagraphI == Clause("akn-paragraph", LabelI, "akn-content", TextY, <<>>, <<>>)

\* what a document is made of
AknItems ==
  { El("h2", Txt(TextX)),
    El("akn-longTitle", Txt(TextY)),
    El("akn-intro", Txt(TextY)),
    El("akn-p", Txt(TextX)),
    El("div", El("akn-p", Txt(TextX))),
    El("akn-p", El("akn-p", Txt(TextX))),
    ParagraphA,
    El("div", ParagraphA),
    \* (1) y, with (a) x below it
    Clause("akn-subsection", Label1, "akn-intro", TextY, <<>>, ParagraphA),
    \* (1) y, with (a) x inside its content element
    Clause("akn-subsection", Label1, "akn-content", TextY, ParagraphA, <<>>),
    \* (1) y, (a) x below it, (i) y below that
    Clause("akn-subsection", Label1, "akn-intro", TextY, <<>>,
           Clause("akn-paragraph", LabelA, "akn-intro", TextX, <<>>, ParagraphI)),
    \* a clause without a label
    El("akn-paragraph", El("akn-content", El("akn-p", Txt(TextX)))) }

RECURSIVE AknDocsOf(_)
AknDocsOf(n) ==
  IF n = 0 THEN { <<>> }
  ELSE AknDocsOf(n - 1) \cup { d \o item : d \in AknDocsOf(n - 1), item \in AknItems }

AknDocs == AknDocsOf(MaxAknItems)

\* node.descendants
DescendantsOf(tree, i) ==
  { j \in (i + 1)..Len(tree) : \A k \in (i + 1)..j : tree[k].depth > tree[i].depth }

ChildrenOf(tree, i) == { j \in DescendantsOf(tree, i) : tree[j].depth = tree[i].depth + 1 }

\* node.find(class_=kind, recursive=False): 0 stands for None
FindChild(tree, i, kind) ==
  LET found == { j \in ChildrenOf(tree, i) : tree[j].kind = kind }
  IN IF found = {} THEN 0 ELSE MinOf(found)

\* node.get_text(sep, strip=True): the non-empty strings below the node
GetText(tree, i, sep) ==
  LET strings == SelectSeq([k \in 1..Len(tree) |-> k],
                   LAMBDA j : (j = i \/ j \in DescendantsOf(tree, i))
                              /\ tree[j].kind = "#text" /\ tree[j].text # <<>>)
  IN Join(sep, [k \in 1..Len(strings) |-> tree[strings[k]].text])

AknLine(text, node) == [text |-> text, node |-> node]
AknBlank(node) == AknLine(<<>>, node)

\* the body element of a clause: akn-content, or else akn-intro
ContentEl(tree, i) ==
  IF FindChild(tree, i, "akn-content") # 0 THEN FindChild(tree, i, "akn-content")
  ELSE FindChild(tree, i, "akn-intro")

\* the lines one node of the walk appends
AknNodeLines(tree, i) ==
  LET node == tree[i]
      text == GetText(tree, i, Lit(<<" ">>))
  IN IF IsHeadingNode([name |-> node.kind])
     THEN IF text # <<>>
          THEN << AknBlank(i),
                  AknLine(CatAll(<<Rep("#", HeadingLevel([name |-> node.kind])), Lit(<<" ">>), text>>), i),
                  AknBlank(i) >>
          ELSE <<>>
     ELSE IF node.kind \in ClauseKinds
     THEN LET num_el == FindChild(tree, i, "akn-num")
              content_el == ContentEl(tree, i)
          IN IF num_el # 0 /\ content_el # 0 /\ GetText(tree, content_el, Lit(<<" ">>)) # <<>>
             THEN << AknLine(CatAll(<<GetText(tree, num_el, <<>>), Lit(<<" ">>),
                                      GetText(tree, content_el, Lit(<<" ">>))>>), i),
                     AknBlank(i) >>
             ELSE <<>>
     ELSE IF node.kind = "akn-intro"
     THEN IF text # <<>> THEN << AknLine(text, i), AknBlank(i) >> ELSE <<>>
     ELSE IF node.kind = "akn-p"
     THEN IF (\A j \in DescendantsOf(tree, i) : tree[j].kind # "akn-p") /\ text # <<>>
          THEN << AknLine(text, i), AknBlank(i) >> ELSE <<>>
     ELSE IF node.kind = "akn-longTitle"
     THEN IF text # <<>>
          THEN << AknLine(CatAll(<<Lit(<<"*">>), text, Lit(<<"*">>)>>), i), AknBlank(i) >>
          ELSE <<>>
     ELSE <<>>

\* `for child in node.descendants: emitted_ids.add(id(child))`
MarkedBy(tree, i) ==
  IF tree[i].kind \in ConsumingKinds THEN DescendantsOf(tree, i) ELSE {}

\* consecutive identical lines collapse, blank lines never
RECURSIVE AknDedup(_, _)
AknDedup(lines, deduped) ==
  IF lines = <<>> THEN deduped
  ELSE AknDedup(Tail(lines),
         IF deduped = <<>> \/ Head(lines).text # deduped[Len(deduped)].text
            \/ Head(lines).text = <<>>
         THEN Append(deduped, Head(lines)) ELSE deduped)

\* "\n".join(deduped).strip(): the blank lines at both ends go
AknStrip(lines) ==
  LET full == { k \in 1..Len(lines) : lines[k].text # <<>> }
  IN IF full = {} THEN <<>> ELSE SubSeq(lines, MinOf(full), MaxOf(full))

AknCall(tree) ==
  [ pc |-> "walk", tree |-> tree, pos |-> 1, lines |-> <<>>, emitted_ids |-> {}, out |-> <<>> ]

InitAkn ==
  /\ registry = NoRegistry
  /\ files = NoWorkingDir
  /\ db = EmptyTables
  /\ load = IdleLoad(0, <<>>)
  /\ ck = ChunkerOff
  /\ gen = Off /\ vf = Off /\ ld = Off /\ fetch = Off /\ conc = Off
  /\ cli = Off /\ quota = Off
  /\ \E tree \in AknDocs : akn = AknCall(tree)

\* one turn of `for node in container.descendants`
AknStep ==
  /\ akn.pc = "walk"
  /\ akn.pos <= Len(akn.tree)
  /\ akn' = IF akn.tree[akn.pos].kind = "#text" \/ akn.pos \in akn.emitted_ids
            THEN [akn EXCEPT !.pos = @ + 1]
            ELSE [akn EXCEPT
                    !.pos = @ + 1,
                    !.lines = @ \o AknNodeLines(akn.tree, akn.pos),
                    !.emitted_ids = @ \cup MarkedBy(akn.tree, akn.pos)]
  /\ UNCHANGED <<registry, files, db, load, ck, gen, vf, ld, fetch, conc, cli, quota>>

\* the deduplication and the return
AknReturn ==
  /\ akn.pc = "walk"
  /\ akn.pos > Len(akn.tree)
  /\ akn' = [akn EXCEPT !.pc = "done", !.out = AknStrip(AknDedup(akn.lines, <<>>))]
  /\ UNCHANGED <<registry, files, db, load, ck, gen, vf, ld, fetch, conc, cli, quota>>

NextAkn ==
  \/ AknStep
  \/ AknReturn

SpecAkn == InitAkn /\ [][NextAkn]_vars

(***************************************************************************)
(* Clause claims                                                           *)
(***************************************************************************)
\* the numbered sub-clauses with a direct label and a direct body
NumberedClauses(tree) ==
  { i \in 1..Len(tree) :
      /\ tree[i].kind \in ClauseKinds
      /\ \E j \in ChildrenOf(tree, i) : tree[j].kind = "akn-num"
      /\ \E j \in ChildrenOf(tree, i) : tree[j].kind \in {"akn-content", "akn-intro"} }

\* 'label body' of a numbered clause
LabelBody(tree, i) ==
  LET label == CHOOSE j \in ChildrenOf(tree, i) : tree[j].kind = "akn-num"
      bodies == { j \in ChildrenOf(tree, i) : tree[j].kind = "akn-content" }
      body == IF bodies # {} THEN MinOf(bodies)
              ELSE MinOf({ j \in ChildrenOf(tree, i) : tree[j].kind = "akn-intro" })
  IN CatAll(<<GetText(tree, label, <<>>), Lit(<<" ">>), GetText(tree, body, Lit(<<" ">>))>>)

\* the output lines 'label body' that clause i contributed
OwnLines(i) ==
  { k \in 1..Len(akn.out) :
      akn.out[k].node = i /\ akn.out[k].text = LabelBody(akn.tree, i) }

\* the clause lies below a clause, an intro or a long title
Nested(tree, i) ==
  \E a \in 1..(i - 1) : tree[a].kind \in ConsumingKinds /\ i \in DescendantsOf(tree, a)

NestedInClause(tree, i) ==
  \E a \in 1..(i - 1) : tree[a].kind \in ClauseKinds /\ i \in DescendantsOf(tree, a)

\* C26: every numbered sub-clause (akn-paragraph or akn-subsection) with a
\* direct label and a direct body contributes exactly one output line
\* 'label body', also when it is nested inside another numbered sub-clause.
C26_EachClauseOnce ==
  akn.pc = "done" =>
    \A i \in NumberedClauses(akn.tree) : Cardinality(OwnLines(i)) = 1

\* what the walk does: the outermost clauses contribute one line each, the
\* clauses below a clause, an intro or a long title none
C26_OutermostClauseOnce ==
  akn.pc = "done" =>
    \A i \in NumberedClauses(akn.tree) :
      Cardinality(OwnLines(i)) = IF Nested(akn.tree, i) THEN 0 ELSE 1

\* no line of the walk is lost or doubled by the deduplication
C26_DedupKeepsLines ==
  akn.pc = "done" =>
    Cardinality({ k \in 1..Len(akn.out) : akn.out[k].text # <<>> })
      = Cardinality({ k \in 1..Len(akn.lines) : akn.lines[k].text # <<>> })

\* a finished walk over a tree with a numbered clause below a numbered clause
C26_NestedClauseWalked ==
  /\ akn.pc = "done"
  /\ \E i \in NumberedClauses(akn.tree) : NestedInClause(akn.tree, i)

(***************************************************************************)
(* main and the four commands: which stages run, in what order, and the    *)
(* exit code.  What each stage does to the files and the store is modelled *)
(* above; here a source is what the stages find of it, and the load and    *)
(* the verifier's checks are outcomes the run meets.                       *)
(***************************************************************************)
MaxCliSources == 2

\* the exit status of the interpreter after an uncaught exception
UncaughtExit == 1
\* the exit status of parser.error
UsageExit == 2

\* raw: the raw input before the run; download: what a request would give
CliSourceKinds ==
  [acquisition : {"manual_download"}, raw : {"present", "unparseable", "absent"}, download : {"none"}]
    \cup [acquisition : {"fetch"}, raw : {"present", "unparseable"}, download : {"none"}]
    \cup [acquisition : {"fetch"}, raw : {"absent"}, download : {"ok", "error"}]

RECURSIVE CliSourceLists(_)
CliSourceLists(n) ==
  IF n = 0 THEN { <<>> }
  ELSE CliSourceLists(n - 1)
         \cup { Append(l, s) : l \in CliSourceLists(n - 1), s \in CliSourceKinds }

CliCommands == {"fetch", "ingest", "verify", "seed", "other"}

CliIdle ==
  [ pc |-> "shell", command |-> "", database_url |-> FALSE, fetch_if_missing |-> FALSE,
    sources |-> <<>>, stages |-> <<>>, fetch_rows |-> <<>>, statuses |-> <<>>,
    issues |-> FALSE, error |-> "", exit |-> 0 ]   \* exit is read once pc is "exited"

\* the status row fetch_sources appends for one source
CliFetchStatus(s, only_missing) ==
  IF s.acquisition # "fetch" THEN "PENDING"
  ELSE IF s.raw # "absent" THEN "SKIPPED"
  ELSE IF s.download = "ok" THEN "FETCHED" ELSE "FAILED"

\* the source after fetch_sources went over it
CliFetched(s) ==
  IF s.acquisition = "fetch" /\ s.raw = "absent" /\ s.download = "ok"
  THEN [s EXCEPT !.raw = "present"] ELSE s

\* the status row normalize_sources appends for one source
CliIngestStatus(s) ==
  IF s.raw = "absent"
  THEN (IF s.acquisition = "manual_download" THEN "PENDING" ELSE "MISSING_RAW")
  ELSE IF s.raw = "unparseable" THEN "FAILED" ELSE "PARSED"

\* an uncaught exception ends the process
CliRaise(c, error) == [c EXCEPT !.pc = "exited", !.error = error, !.exit = UncaughtExit]

CliReturn(c, code) == [c EXCEPT !.pc = "exited", !.exit = code]

\* command_seed returning 0 like command_fetch and command_ingest
SeedReturnsZero(rc) == 0

\* `return verify_seed(...)` of command_seed
SeedReturns(rc) == rc

InitCli ==
  /\ registry = NoRegistry
  /\ files = NoWorkingDir
  /\ db = EmptyTables
  /\ load = IdleLoad(0, <<>>)
  /\ ck = ChunkerOff
  /\ gen = Off /\ vf = Off /\ ld = Off /\ fetch = Off /\ conc = Off
  /\ akn = Off /\ quota = Off
  /\ cli = CliIdle

\* main: parse the arguments, then the database_url checks of command_verify
\* and command_seed
CliMain ==
  /\ cli.pc = "shell"
  /\ \E command \in CliCommands, database_url \in BOOLEAN, fetch_if_missing \in BOOLEAN :
       LET c == [cli EXCEPT !.command = command, !.database_url = database_url,
                            !.fetch_if_missing = fetch_if_missing /\ command = "ingest"]
       IN cli' = IF command = "other"
                 THEN [c EXCEPT !.pc = "exited", !.error = "usage", !.exit = UsageExit]
                 ELSE IF command \in {"verify", "seed"} /\ ~database_url
                 THEN CliRaise(c, "config")
                 ELSE [c EXCEPT !.pc = "load_sources"]
  /\ UNCHANGED <<registry, files, db, load, ck, gen, vf, ld, fetch, conc, akn, quota>>

\* load_sources: the registry is read, or it is malformed
CliLoadSources ==
  /\ cli.pc = "load_sources"
  /\ \/ cli' = CliRaise(cli, "registry")
     \/ \E l \in CliSourceLists(MaxCliSources) :
          cli' = [cli EXCEPT
                    !.sources = l,
                    !.pc = CASE cli.command = "verify" -> "verify"
                             [] cli.command = "ingest" -> "pipeline"
                             [] OTHER -> "fetch"]
  /\ UNCHANGED <<registry, files, db, load, ck, gen, vf, ld, fetch, conc, akn, quota>>

\* fetch_sources(sources, ingest_dir) of command_fetch and command_seed
CliFetch ==
  /\ cli.pc = "fetch"
  /\ cli' = [cli EXCEPT
       !.stages = Append(@, "fetch"),
       !.fetch_rows = [i \in 1..Len(cli.sources) |-> CliFetchStatus(cli.sources[i], FALSE)],
       !.sources = [i \in 1..Len(cli.sources) |-> CliFetched(cli.sources[i])],
       !.pc = IF cli.command = "fetch" THEN "report" ELSE "normalize"]
  /\ UNCHANGED <<registry, files, db, load, ck, gen, vf, ld, fetch, conc, akn, quota>>

\* the head of run_ingest_pipeline under command_ingest: with
\* --fetch-if-missing the fetch sources without a raw input are fetched
CliPipeline ==
  /\ cli.pc = "pipeline"
  /\ LET Missing(s) == s.acquisition = "fetch" /\ s.raw = "absent"
         missing_fetch == SelectSeq(cli.sources, Missing)
     IN cli' = IF cli.fetch_if_missing /\ missing_fetch # <<>>
               THEN [cli EXCEPT
                       !.stages = Append(@, "fetch"),
                       !.fetch_rows = [i \in 1..Len(missing_fetch) |->
                                         CliFetchStatus(missing_fetch[i], TRUE)],
                       !.sources = [i \in 1..Len(cli.sources) |-> CliFetched(cli.sources[i])],
                       !.pc = "normalize"]
               ELSE [cli EXCEPT !.pc = "normalize"]
  /\ UNCHANGED <<registry, files, db, load, ck, gen, vf, ld, fetch, conc, akn, quota>>

\* normalize_sources, and the two checks run_ingest_pipeline makes after it
CliNormalize ==
  /\ cli.pc = "normalize"
  /\ LET statuses == [i \in 1..Len(cli.sources) |-> CliIngestStatus(cli.sources[i])]
         c == [cli EXCEPT !.stages = Append(@, "normalize"), !.statuses = statuses]
     IN cli' = IF SkipsLoad(SelectSeq(statuses, LAMBDA st : st = "PARSED"))
               THEN [c EXCEPT !.pc = "report"]
               ELSE IF ~cli.database_url THEN CliRaise(c, "config")
               ELSE [c EXCEPT !.pc = "load"]
  /\ UNCHANGED <<registry, files, db, load, ck, gen, vf, ld, fetch, conc, akn, quota>>

\* load_to_postgres: it returns, or a statement or the connection raises
CliLoad ==
  /\ cli.pc = "load"
  /\ LET c == [cli EXCEPT !.stages = Append(@, "load")]
     IN \/ cli' = [c EXCEPT !.pc = "report"]
        \/ cli' = CliRaise(c, "load")
  /\ UNCHANGED <<registry, files, db, load, ck, gen, vf, ld, fetch, conc, akn, quota>>

\* the prints and write_report; command_fetch and command_ingest return 0
CliReport ==
  /\ cli.pc = "report"
  /\ LET c == [cli EXCEPT !.stages = Append(@, "report")]
     IN cli' = IF cli.command = "seed" THEN [c EXCEPT !.pc = "verify"] ELSE CliReturn(c, 0)
  /\ UNCHANGED <<registry, files, db, load, ck, gen, vf, ld, fetch, conc, akn, quota>>

\* verify_seed: one of its three checks fails (1), none does (0), or the
\* store cannot be reached
CliVerify ==
  /\ cli.pc = "verify"
  /\ LET c == [cli EXCEPT !.stages = Append(@, "verify")]
     IN \/ \E issues \in BOOLEAN :
             LET rc == IF issues THEN 1 ELSE 0
             IN cli' = CliReturn([c EXCEPT !.issues = issues],
                                 IF cli.command = "seed" THEN SeedReturns(rc) ELSE rc)
        \/ cli' = CliRaise(c, "verify")
  /\ UNCHANGED <<registry, files, db, load, ck, gen, vf, ld, fetch, conc, akn, quota>>

\* the next command line
CliAgain ==
  /\ cli.pc = "exited"
  /\ cli' = CliIdle
  /\ UNCHANGED <<registry, files, db, load, ck, gen, vf, ld, fetch, conc, akn, quota>>

NextCli ==
  \/ CliMain
  \/ CliLoadSources
  \/ CliFetch
  \/ CliPipeline
  \/ CliNormalize
  \/ CliLoad
  \/ CliReport
  \/ CliVerify
  \/ CliAgain

SpecCli == InitCli /\ [][NextCli]_vars

(***************************************************************************)
(* Command line claims                                                     *)
(***************************************************************************)
IsPrefix(s, t) == Len(s) <= Len(t) /\ SubSeq(t, 1, Len(s)) = s

SeedStages == <<"fetch", "normalize", "load", "report", "verify">>
SeedStagesNoLoad == <<"fetch", "normalize", "report", "verify">>

Ran(stage) == \E i \in 1..Len(cli.stages) : cli.stages[i] = stage

SomeSourceNotIngested ==
  \/ \E i \in 1..Len(cli.fetch_rows) : cli.fetch_rows[i] \in {"FAILED", "PENDING"}
  \/ \E i \in 1..Len(cli.statuses) : cli.statuses[i] \in {"FAILED", "PENDING", "MISSING_RAW"}

\* C21: seed runs fetch, ingest (normalize, then load), report, verify in that
\* order, each at most once; a seed that reached the end of verification exits
\* 1 when it failed and 0 when it passed; fetch and ingest exit 0 whatever the
\* statuses of the sources, and nonzero only on a registry, configuration or
\* load error; a load error ends the run with a nonzero exit before report
\* and verify.
C21_SeedStages ==
  /\ cli.command = "seed" =>
       /\ IsPrefix(cli.stages, SeedStages) \/ IsPrefix(cli.stages, SeedStagesNoLoad)
       /\ Ran("load") => \E i \in 1..Len(cli.statuses) : cli.statuses[i] = "PARSED"
       /\ Ran("report") /\ ~Ran("load") =>
            \A i \in 1..Len(cli.statuses) : cli.statuses[i] # "PARSED"
       /\ cli.pc = "exited" /\ cli.error = "" =>
            /\ Ran("verify") /\ Ran("report")
            /\ cli.exit = IF cli.issues THEN 1 ELSE 0
  /\ cli.command \in {"fetch", "ingest"} /\ cli.pc = "exited" =>
       /\ cli.exit = 0 <=> cli.error = ""
       /\ cli.error \in {"", "registry", "config", "load"}
       /\ cli.error = "" => Ran("report")
  /\ cli.pc = "exited" /\ cli.error = "load" =>
       cli.exit # 0 /\ ~Ran("report") /\ ~Ran("verify")

\* a seed whose verification failed after all five stages, with a source that
\* was not ingested
C21_WitnessSeedFails ==
  /\ cli.command = "seed" /\ cli.pc = "exited"
  /\ cli.stages = SeedStages
  /\ cli.issues /\ cli.exit = 1
  /\ SomeSourceNotIngested

\* an ingest that exits 0 with no source ingested
C21_WitnessIngestZero ==
  /\ cli.command = "ingest" /\ cli.pc = "exited" /\ cli.exit = 0
  /\ cli.statuses # <<>>
  /\ \A i \in 1..Len(cli.statuses) : cli.statuses[i] \in {"FAILED", "PENDING", "MISSING_RAW"}

\* a seed stopped by a load error
C21_WitnessLoadError ==
  /\ cli.command = "seed" /\ cli.pc = "exited" /\ cli.error = "load"
  /\ cli.stages = <<"fetch", "normalize", "load">>

(***************************************************************************)
(* The chat API: QuotaService (apps/api/app/services/quota.py) under       *)
(* ChatService.handle_chat (apps/api/app/services/chat.py).                *)
(*                                                                         *)
(* Requests run in concurrent sessions on one store.  A statement of an    *)
(* open transaction that touches the inflight_requests row of a user waits *)
(* for another transaction's uncommitted insert of that row; the tables    *)
(* below are the committed ones.  All requests fall in one UTC day.        *)
(***************************************************************************)
MaxRequests == 2
MaxMinute == 1
\* the settings quota_* and guest_quota_*, scaled down
DailyRequests == 2
DailyOutputTokens == 2
MinuteRequests == 1
GuestDailyRequests == 1

UserGuest == "guest:1"
UserMember == "user-1"
Users == {UserGuest, UserMember}
Slots == {1, 2}
Minutes == 0..MaxMinute
\* estimated_output_tokens of an answer
TokenOuts == {0, 1}

\* user_id.startswith("guest:")
IsGuest(u) == u = UserGuest

\* has_byok_provider runs a SELECT on the session unless the user is a guest;
\* the session.begin() that follows either joins the transaction that
\* statement began or raises InvalidRequestError, depending on the session
BeginOutcomes(u) == IF IsGuest(u) THEN {"ok"} ELSE {"ok", "raises"}

QuotaTables(q) == [inflight |-> q.inflight, daily |-> q.daily, minute |-> q.minute]

NoRequest == [pc |-> "idle", user |-> "", reason |-> "", token_out |-> 0]

QuotaStart ==
  [ pc |-> "serving",
    inflight |-> {},
    daily |-> [u \in Users |-> [req_count |-> 0, token_out |-> 0]],
    minute |-> [u \in Users |-> [m \in Minutes |-> 0]],
    clock |-> 0,
    started |-> 0,
    req |-> [s \in Slots |-> NoRequest] ]

\* a plain INSERT, which would raise on the duplicate instead
RowCountAlwaysOne(inflight, u) == 1

\* rowcount of INSERT INTO inflight_requests ... ON CONFLICT (user_id) DO NOTHING
RowCount(inflight, u) == IF u \in inflight THEN 0 ELSE 1

\* the transaction's changes are kept
RollbackKeeps(before, after) == after

\* leaving `async with session.begin()` on an exception, and session.rollback()
Rollback(before, after) == before

\* a release that leaves the row
DeleteInflightNoop(inflight, u) == inflight

\* DELETE FROM inflight_requests WHERE user_id = :user_id
DeleteInflight(inflight, u) == inflight \ {u}

\* the three statements of reserve's transaction, as the transaction sees them
Reserved(tables, u, m) ==
  [ inflight |-> tables.inflight \cup {u},
    daily |-> [tables.daily EXCEPT ![u].req_count = @ + 1],
    minute |-> [tables.minute EXCEPT ![u][m] = @ + 1] ]

\* _resolve_limits, for a guest and for a member without a provider of their own
ResolveLimits(u) ==
  IF IsGuest(u)
  THEN [daily_requests |-> GuestDailyRequests, daily_output_tokens |-> DailyOutputTokens,
        minute_requests |-> MinuteRequests]
  ELSE [daily_requests |-> DailyRequests, daily_output_tokens |-> DailyOutputTokens,
        minute_requests |-> MinuteRequests]

\* the first limit the counters returned by the upserts exceed
QuotaReason(tables, u, m) ==
  LET limits == ResolveLimits(u) IN
  IF tables.daily[u].req_count > limits.daily_requests THEN "daily_requests"
  ELSE IF tables.daily[u].token_out >= limits.daily_output_tokens THEN "daily_output_tokens"
  ELSE IF tables.minute[u][m] > limits.minute_requests THEN "minute_requests"
  ELSE ""

SetTables(q, tables) ==
  [q EXCEPT !.inflight = tables.inflight, !.daily = tables.daily, !.minute = tables.minute]

InitQuota ==
  /\ registry = NoRegistry
  /\ files = NoWorkingDir
  /\ db = EmptyTables
  /\ load = IdleLoad(0, <<>>)
  /\ ck = ChunkerOff
  /\ gen = Off /\ vf = Off /\ ld = Off /\ fetch = Off /\ conc = Off
  /\ akn = Off /\ cli = Off
  /\ quota = QuotaStart

QuotaFrame == UNCHANGED <<registry, files, db, load, ck, gen, vf, ld, fetch, conc, akn, cli>>

\* handle_chat is called; reserve resolves the limits and opens its transaction
ChatBegin(s) ==
  /\ quota.req[s].pc = "idle"
  /\ quota.started < MaxRequests
  /\ \E u \in Users : \E begin \in BeginOutcomes(u) :
       quota' = [quota EXCEPT
                   !.started = @ + 1,
                   !.req[s] = [NoRequest EXCEPT !.user = u,
                                 !.pc = IF begin = "ok" THEN "insert" ELSE "failed",
                                 !.reason = IF begin = "ok" THEN "" ELSE "begin"]]
  /\ QuotaFrame

\* the INSERT into inflight_requests and the rowcount test
ReserveInsert(s) ==
  LET r == quota.req[s] IN
  /\ r.pc = "insert"
  /\ \A t \in Slots \ {s} : ~(quota.req[t].pc = "count" /\ quota.req[t].user = r.user)
  /\ quota' =
       IF RowCount(quota.inflight, r.user) = 0
       THEN SetTables([quota EXCEPT !.req[s].pc = "rejected", !.req[s].reason = "inflight"],
                      Rollback(QuotaTables(quota), QuotaTables(quota)))
       ELSE [quota EXCEPT !.req[s].pc = "count"]
  /\ QuotaFrame

\* the two counter upserts, the three limit tests, and the commit or the
\* rollback that ends the transaction
ReserveCount(s) ==
  LET r == quota.req[s]
      tx == Reserved(QuotaTables(quota), r.user, quota.clock)
      reason == QuotaReason(tx, r.user, quota.clock)
  IN
  /\ r.pc = "count"
  /\ quota' =
       IF reason # ""
       THEN SetTables([quota EXCEPT !.req[s].pc = "rejected", !.req[s].reason = reason],
                      Rollback(QuotaTables(quota), tx))
       ELSE SetTables([quota EXCEPT !.req[s].pc = "working"], tx)
  /\ QuotaFrame

\* the body of handle_chat's try up to the call of finalize: a cached answer,
\* a generated answer, an HTTPException (conversation not found) or another
\* exception; none of it touches the quota tables
ChatWork(s) ==
  LET r == quota.req[s] IN
  /\ r.pc = "working"
  /\ \/ \E t \in TokenOuts :
          quota' = [quota EXCEPT !.req[s].pc = "finalize", !.req[s].token_out = t + 1]
     \/ quota' = [quota EXCEPT !.req[s].pc = "release", !.req[s].reason = "http"]
     \/ quota' = [quota EXCEPT !.req[s].pc = "release", !.req[s].reason = "error"]
  /\ QuotaFrame

\* finalize: its transaction adds the tokens and deletes the marker, or it
\* raises (its session.begin() for a member, or a statement) and is rolled back
ChatFinalize(s) ==
  LET r == quota.req[s]
      tx == [QuotaTables(quota) EXCEPT
               !.daily[r.user].token_out = @ + r.token_out,
               !.inflight = DeleteInflight(@, r.user)]
  IN
  /\ r.pc = "finalize"
  /\ \/ quota' = SetTables([quota EXCEPT !.req[s].pc = "returned"], tx)
     \/ quota' = SetTables([quota EXCEPT !.req[s].pc = "release", !.req[s].reason = "error"],
                           Rollback(QuotaTables(quota), tx))
  /\ QuotaFrame

\* the two except clauses: (rollback,) release, commit, raise
ChatRelease(s) ==
  LET r == quota.req[s] IN
  /\ r.pc = "release"
  /\ quota' = [quota EXCEPT !.req[s].pc = "raised",
                            !.inflight = DeleteInflight(@, r.user)]
  /\ QuotaFrame

\* the response or the error has been sent
ChatEnd(s) ==
  /\ quota.req[s].pc \in {"returned", "raised", "rejected", "failed"}
  /\ quota' = [quota EXCEPT !.req[s] = NoRequest]
  /\ QuotaFrame

\* datetime.now(UTC) reaches the next minute
QuotaTick ==
  /\ quota.pc = "serving"
  /\ quota.clock < MaxMinute
  /\ quota' = [quota EXCEPT !.clock = @ + 1]
  /\ QuotaFrame

RequestStep(s) ==
  \/ ReserveInsert(s)
  \/ ReserveCount(s)
  \/ ChatWork(s)
  \/ ChatFinalize(s)
  \/ ChatRelease(s)
  \/ ChatEnd(s)

NextQuota ==
  \/ \E s \in Slots : ChatBegin(s)
  \/ \E s \in Slots : ReserveInsert(s)
  \/ \E s \in Slots : ReserveCount(s)
  \/ \E s \in Slots : ChatWork(s)
  \/ \E s \in Slots : ChatFinalize(s)
  \/ \E s \in Slots : ChatRelease(s)
  \/ \E s \in Slots : ChatEnd(s)
  \/ QuotaTick

SpecQuota == InitQuota /\ [][NextQuota]_vars

\* a request that has been accepted by the server runs to its end
SpecQuotaLive == SpecQuota /\ \A s \in Slots : WF_vars(RequestStep(s))

(***************************************************************************)
(* Quota claims                                                            *)
(***************************************************************************)
\* the requests of user u between their successful reserve and their end
InFlightOf(q, u) ==
  { s \in Slots : q.req[s].user = u /\ q.req[s].pc \in {"working", "finalize", "release"} }

StepOf(s) == quota'.req[s] # quota.req[s]

\* C22: a user has at most one request in flight, the marker is there exactly
\* while that request is, and a reserve whose insert finds the user's marker
\* is rejected with 429 'already in progress', whatever the interleaving of
\* the reserve, finalize and release calls of the user's requests.
C22_InflightLock ==
  /\ [](\A u \in Users :
          /\ Cardinality(InFlightOf(quota, u)) <= 1
          /\ u \in quota.inflight <=> InFlightOf(quota, u) # {})
  /\ [][\A s \in Slots :
          quota.req[s].pc = "insert" /\ StepOf(s) /\ quota.req[s].user \in quota.inflight
            => quota'.req[s].pc = "rejected" /\ quota'.req[s].reason = "inflight"]_vars

\* a reserve rejected while the other request of the same user is in flight
C22_Witness ==
  \E s \in Slots : \E t \in Slots \ {s} :
    /\ quota.req[s].pc = "rejected" /\ quota.req[s].reason = "inflight"
    /\ t \in InFlightOf(quota, quota.req[s].user)

C29_WitnessError ==
  \E s \in Slots :
    /\ quota.req[s].pc = "raised" /\ quota.req[s].reason = "error"
    /\ quota.req[s].token_out > 0
    /\ quota.req[s].user \notin quota.inflight

\* C30: a reserve that raises 429, for whichever of the four reasons, leaves
\* the committed usage_daily, usage_minute and inflight_requests as they
\* were: no step of the call has changed them.
C30_RejectedCommitsNothing ==
  [][\A s \in Slots :
       quota.req[s].pc \in {"idle", "insert", "count"} /\ StepOf(s)
         /\ quota'.req[s].pc # "working"
         => QuotaTables(quota') = QuotaTables(quota)]_vars

Rejected(reason) ==
  \E s \in Slots : quota.req[s].pc = "rejected" /\ quota.req[s].reason = reason

\* a reserve rejected by the daily request limit, the counters at the limit
C30_WitnessDailyRequests ==
  \E s \in Slots :
    /\ quota.req[s].pc = "rejected" /\ quota.req[s].reason = "daily_requests"
    /\ quota.daily[quota.req[s].user].req_count = ResolveLimits(quota.req[s].user).daily_requests
    /\ quota.req[s].user \notin quota.inflight

C30_WitnessOutputTokens == Rejected("daily_output_tokens")

C30_WitnessMinuteRequests == Rejected("minute_requests")

====
